---- MODULE Spec2Model ----
(***************************************************************************)
(* A model of the probing engine of pistol-rs:                             *)
(*   - src/src/ping.rs     ping / ping6, threads_ping / threads_ping6,     *)
(*                         PingResults (insert, enrichment)                *)
(*   - src/src/hop.rs      ipv4_get_hops / ipv6_get_hops                   *)
(*   - src/src/vs/vscan.rs threads_vs_probe and its three stages           *)
(*                                                                         *)
(* Each part has its own specification (SpecPing, SpecUnits, SpecClassify,*)
(* SpecHop, SpecVs); the variables of the other parts stay at their        *)
(* initial values.                                                         *)
(*                                                                         *)
(* Conventions: an Option<T> is a sequence of length <= 1 (<<>> is None,   *)
(* <<x>> is Some(x)); a Duration is a whole number of nanoseconds; a       *)
(* HashMap is a function whose DOMAIN is the set of keys present.          *)
(***************************************************************************)
EXTENDS Integers, Sequences, FiniteSets, TLC

(***************************************************************************)
(* Bounds of the model.                                                    *)
(***************************************************************************)
MaxHosts == 2
MaxTests == 3
MaxUnits == 3
MaxThreads == 2
MaxProbes == 2
MaxReads == 2

(***************************************************************************)
(* Values.                                                                 *)
(***************************************************************************)
None == <<>>
Some(x) == <<x>>

Addrs == {"a1", "a2"}
Families == {"v4", "v6"}
PingMethods == {"Syn", "Ack", "Udp", "Icmp", "Icmpv6"}
PingStatus == {"Up", "Down", "Error"}
\* The verdicts of the packet transport: the three that ping.rs names and
\* two of the others ("Closed", "Filtered") standing for every other one.
PortStatus == {"Open", "Unfiltered", "OpenOrFiltered", "Closed", "Filtered"}
\* The round-trip times the transport measures, in nanoseconds.
Durations == {1, 2}
Rtts == {None} \cup {Some(d) : d \in Durations}

Ok(v) == [ok |-> TRUE, val |-> v]
Err(e) == [ok |-> FALSE, val |-> e]

VARIABLES
    \* ---- ping / ping6 -------------------------------------------------
    family,       \* "v4": ping, "v6": ping6
    method,       \* the PingMethods argument
    hosts,        \* target.hosts / target.hosts6: the destination addresses
    src_found,    \* what find_source_addr answers for each host of the list
    tests,        \* the trial count
    threads_num,  \* the size of the pool
    pc,           \* "run", "done" (returned Ok), "err" (returned Err)
    host_i,       \* number of hosts the submission loop has gone through
    recv_size,    \* the counter of submitted units
    received,     \* number of messages the drain loop has taken
    jobs,         \* the pool's queue: destinations of the units not yet started
    running,      \* the units executing: how many of each destination
    chan,         \* the channel: messages sent and not yet received
    ping_results, \* the PingResults under construction, then returned
    ret           \* what ping/ping6 returned: None until it returns

VARIABLES
    \* ---- one call of threads_ping / threads_ping6 -----------------------
    c_family,     \* "v4": threads_ping, "v6": threads_ping6
    c_method,     \* its method argument
    c_dst_port,   \* its dst_port argument
    c_reply,      \* what the transport replies when it is called
    c_ret,        \* what the call returned: None until it returns
    c_prev        \* the call before it, with what it returned: None for the first

VARIABLES
    \* ---- the units of ping / ping6 and the packets they send ------------
    u_family,       \* "v4": ping, "v6": ping6
    u_method,       \* the PingMethods argument
    u_hosts,        \* target.hosts / target.hosts6: the destination addresses
    u_tests,        \* the trial count
    u_src_port_arg, \* the src_port argument, an Option<u16>
    u_src_port,     \* the local src_port: None until the first statement ran
    u_pc,           \* "start", "submit", "err" (returned Err at a host)
    u_host_i,       \* number of hosts the submission loop has gone through
    u_units,        \* the closures given to the pool, with what each captured
    u_sent          \* what each closure that ran passed to the transport

VARIABLES
    \* ---- RouteTable::init -----------------------------------------------
    r_lines,            \* what system_route_lines returned: Ok(lines) or Err
    r_pc,               \* "lines", "loop", "done"
    r_i,                \* number of lines the loop has gone through
    default_ipv4_route, \* the three locals the loop fills
    default_ipv6_route,
    routes,
    r_ret               \* what init returned: None until it returns

VARIABLES
    \* ---- SystemNetCache -------------------------------------------------
    snc,                \* the cache: default_route, default_route6, routes, neighbor
    last_call           \* the last method called on it, its arguments and result

VARIABLES
    \* ---- ipv4_get_hops / ipv6_get_hops ----------------------------------
    h_family,     \* "v4": ipv4_get_hops, "v6": ipv6_get_hops
    ttl,          \* the loop variable: the TTL of the next probe
    h_probes,     \* the probes sent so far, each with the transport's reply
    h_ret         \* what the call returned: None until it returns

VARIABLES
    \* ---- threads_vs_probe -----------------------------------------------
    dst_port,             \* the arguments of the call
    only_null_probe,
    only_tcp_recommended,
    only_udp_recommended,
    intensity,
    service_probes,
    v_pc,           \* "connect", "null", "tcp", "tcp_read", "udp_bind", "udp", "done"
    connect_ret,    \* what connect_timeout returned: None until it returns
    null_probe_ret, \* what tcp_null_probe returned: None until it returns
    sp_i,           \* the place of the stage's loop in service_probes
    recv_buff,      \* the receive buffer of the read loop in progress
    recv_all_buff,  \* what that loop has accumulated
    reads,          \* number of reads of that loop that returned data
    v_matches,      \* `ret` of the stage in progress
    v_log,          \* the socket operations issued so far
    v_ret           \* what the call returned: None until it returns

ping_vars == <<family, method, hosts, src_found, tests, threads_num, pc, host_i,
               recv_size, received, jobs, running, chan, ping_results, ret>>

classify_vars == <<c_family, c_method, c_dst_port, c_reply, c_ret, c_prev>>
unit_vars == <<u_family, u_method, u_hosts, u_tests, u_src_port_arg, u_src_port,
               u_pc, u_host_i, u_units, u_sent>>
route_vars == <<r_lines, r_pc, r_i, default_ipv4_route, default_ipv6_route, routes,
                r_ret>>
cache_vars == <<snc, last_call>>
hop_vars == <<h_family, ttl, h_probes, h_ret>>
vs_args == <<dst_port, only_null_probe, only_tcp_recommended, only_udp_recommended,
             intensity, service_probes>>
vs_vars == <<vs_args, v_pc, connect_ret, null_probe_ret, sp_i, recv_buff,
             recv_all_buff, reads, v_matches, v_log, v_ret>>

vars == <<ping_vars, classify_vars, unit_vars, route_vars, cache_vars, hop_vars,
          vs_vars>>

\* What the actions of one part leave alone: the variables of the others.
not_ping == <<classify_vars, unit_vars, route_vars, cache_vars, hop_vars, vs_vars>>
not_classify == <<ping_vars, unit_vars, route_vars, cache_vars, hop_vars, vs_vars>>
not_units == <<ping_vars, classify_vars, route_vars, cache_vars, hop_vars, vs_vars>>
not_route == <<ping_vars, classify_vars, unit_vars, cache_vars, hop_vars, vs_vars>>
not_cache == <<ping_vars, classify_vars, unit_vars, route_vars, hop_vars, vs_vars>>
not_hop == <<ping_vars, classify_vars, unit_vars, route_vars, cache_vars, vs_vars>>
not_vs == <<ping_vars, classify_vars, unit_vars, route_vars, cache_vars, hop_vars>>

(***************************************************************************)
(* threads_ping / threads_ping6: one probe unit.                           *)
(* A reply of the transport is Ok([verdict, rtt]) or Err("Transport"); for *)
(* the ICMP transports the verdict is already a PingStatus. `reply` is     *)
(* what the transport answers to the packet the unit sends; `dport` is the *)
(* unit's dst_port argument, an Option<u16>, which goes into that packet.  *)
(***************************************************************************)
\* The verdicts of the ICMP transports: the target is reachable or it is not.
IcmpVerdicts == {"Up", "Down"}

TransportReplies(m) ==
    {Err("Transport")} \cup
    {Ok([verdict |-> v, rtt |-> r]) :
        v \in (IF m \in {"Icmp", "Icmpv6"} THEN IcmpVerdicts ELSE PortStatus),
        r \in Rtts}

\* Whether the method reaches a transport call at all in this family.
CallsTransport(fam, m) ==
    IF fam = "v4" THEN m # "Icmpv6" ELSE m # "Icmp"

\* threads_ping with the OpenOrFiltered arm of its Udp match in force.
threads_ping_UdpAsPing6(m, dport, reply) ==
    CASE m = "Icmpv6" -> Err("UnsupportedPingMethod")
      [] ~reply.ok -> reply
      [] m = "Syn" ->
            Ok([status |-> IF reply.val.verdict = "Open" THEN "Up" ELSE "Down",
                rtt |-> reply.val.rtt])
      [] m = "Ack" ->
            Ok([status |-> IF reply.val.verdict = "Unfiltered" THEN "Up" ELSE "Down",
                rtt |-> reply.val.rtt])
      [] m = "Udp" ->
            Ok([status |-> IF reply.val.verdict \in {"Open", "OpenOrFiltered"}
                           THEN "Up" ELSE "Down",
                rtt |-> reply.val.rtt])
      [] m = "Icmp" ->
            Ok([status |-> reply.val.verdict, rtt |-> reply.val.rtt])

\* threads_ping giving up on a unit that has no destination port: Down.
threads_ping_NoPortIsDown(m, dport, reply) ==
    CASE m = "Icmpv6" -> Err("UnsupportedPingMethod")
      [] ~reply.ok -> reply
      [] m \in {"Syn", "Ack", "Udp"} /\ dport = None ->
            Ok([status |-> "Down", rtt |-> reply.val.rtt])
      [] m = "Syn" ->
            Ok([status |-> IF reply.val.verdict = "Open" THEN "Up" ELSE "Down",
                rtt |-> reply.val.rtt])
      [] m = "Ack" ->
            Ok([status |-> IF reply.val.verdict = "Unfiltered" THEN "Up" ELSE "Down",
                rtt |-> reply.val.rtt])
      [] m = "Udp" ->
            Ok([status |-> IF reply.val.verdict = "Open" THEN "Up" ELSE "Down",
                rtt |-> reply.val.rtt])
      [] m = "Icmp" ->
            Ok([status |-> reply.val.verdict, rtt |-> reply.val.rtt])

\* threads_ping classifying the method it does not support as Down.
threads_ping_UnsupportedAsDown(m, dport, reply) ==
    CASE m = "Icmpv6" -> Ok([status |-> "Down", rtt |-> None])
      [] ~reply.ok -> reply
      [] m = "Syn" ->
            Ok([status |-> IF reply.val.verdict = "Open" THEN "Up" ELSE "Down",
                rtt |-> reply.val.rtt])
      [] m = "Ack" ->
            Ok([status |-> IF reply.val.verdict = "Unfiltered" THEN "Up" ELSE "Down",
                rtt |-> reply.val.rtt])
      [] m = "Udp" ->
            Ok([status |-> IF reply.val.verdict = "Open" THEN "Up" ELSE "Down",
                rtt |-> reply.val.rtt])
      [] m = "Icmp" ->
            Ok([status |-> reply.val.verdict, rtt |-> reply.val.rtt])

threads_ping(m, dport, reply) ==
    CASE m = "Icmpv6" -> Err("UnsupportedPingMethod")
      [] ~reply.ok -> reply
      [] m = "Syn" ->
            Ok([status |-> IF reply.val.verdict = "Open" THEN "Up" ELSE "Down",
                rtt |-> reply.val.rtt])
      [] m = "Ack" ->
            Ok([status |-> IF reply.val.verdict = "Unfiltered" THEN "Up" ELSE "Down",
                rtt |-> reply.val.rtt])
      [] m = "Udp" ->
            Ok([status |-> IF reply.val.verdict = "Open" THEN "Up" ELSE "Down",
                rtt |-> reply.val.rtt])
      [] m = "Icmp" ->
            Ok([status |-> reply.val.verdict, rtt |-> reply.val.rtt])

\* threads_ping6 with the Ack arm copied from the Syn arm.
threads_ping6_AckAsSyn(m, dport, reply) ==
    CASE m = "Icmp" -> Err("UnsupportedPingMethod")
      [] ~reply.ok -> reply
      [] m \in {"Syn", "Ack"} ->
            Ok([status |-> IF reply.val.verdict = "Open" THEN "Up" ELSE "Down",
                rtt |-> reply.val.rtt])
      [] m = "Udp" ->
            Ok([status |-> IF reply.val.verdict \in {"Open", "OpenOrFiltered"}
                           THEN "Up" ELSE "Down",
                rtt |-> reply.val.rtt])
      [] m = "Icmpv6" ->
            Ok([status |-> reply.val.verdict, rtt |-> reply.val.rtt])

threads_ping6(m, dport, reply) ==
    CASE m = "Icmp" -> Err("UnsupportedPingMethod")
      [] ~reply.ok -> reply
      [] m = "Syn" ->
            Ok([status |-> IF reply.val.verdict = "Open" THEN "Up" ELSE "Down",
                rtt |-> reply.val.rtt])
      [] m = "Ack" ->
            Ok([status |-> IF reply.val.verdict = "Unfiltered" THEN "Up" ELSE "Down",
                rtt |-> reply.val.rtt])
      [] m = "Udp" ->
            Ok([status |-> IF reply.val.verdict \in {"Open", "OpenOrFiltered"}
                           THEN "Up" ELSE "Down",
                rtt |-> reply.val.rtt])
      [] m = "Icmpv6" ->
            Ok([status |-> reply.val.verdict, rtt |-> reply.val.rtt])

(***************************************************************************)
(* PingResults.                                                            *)
(***************************************************************************)
EmptyMap == [k \in {} |-> <<>>]

PingResults_new ==
    [pings |-> EmptyMap, rtts |-> EmptyMap, avg_rtt |-> None, alive_hosts |-> 0]

\* The vector of the key getting the new element at its front.
PushOrInsert_Front(map, k, x) ==
    IF k \in DOMAIN map
    THEN [map EXCEPT ![k] = <<x>> \o @]
    ELSE map @@ (k :> <<x>>)

\* map.get_mut(k): Some(v) => v.push(x); None => map.insert(k, vec![x])
PushOrInsert(map, k, x) ==
    IF k \in DOMAIN map
    THEN [map EXCEPT ![k] = Append(@, x)]
    ELSE map @@ (k :> <<x>>)

\* insert taking a missing rtt for a zero Duration.
insert_DefaultRtt(pr, dst, ping_status, rtt) ==
    [pr EXCEPT
        !.pings = PushOrInsert(@, dst, ping_status),
        !.rtts = PushOrInsert(@, dst, IF rtt # None THEN rtt[1] ELSE 0)]

\* PingResults::insert(dst, ping_status, rtt)
insert(pr, dst, ping_status, rtt) ==
    [pr EXCEPT
        !.pings = PushOrInsert(@, dst, ping_status),
        !.rtts = IF rtt # None THEN PushOrInsert(@, dst, rtt[1]) ELSE @]

\* ping's drain loop logging an Err message without recording it.
ping_recv_DropsErr(pr, dst, res) ==
    IF res.ok
    THEN insert(pr, dst, res.val.status, res.val.rtt)
    ELSE pr

\* The body of ping's drain loop for one message.
ping_recv(pr, dst, res) ==
    IF res.ok
    THEN insert(pr, dst, res.val.status, res.val.rtt)
    ELSE insert(pr, dst, "Error", None)

\* ping6's drain loop recording an Err message as Down.
ping6_recv_ErrAsDown(pr, dst, res) ==
    IF res.ok
    THEN LET p1 == [pr EXCEPT !.pings = PushOrInsert(@, dst, res.val.status)]
         IN  IF res.val.rtt # None
             THEN [p1 EXCEPT !.rtts = PushOrInsert(@, dst, res.val.rtt[1])]
             ELSE p1
    ELSE [pr EXCEPT !.pings = PushOrInsert(@, dst, "Down")]

\* ping6's drain loop leaving the rtts map alone.
ping6_recv_NoRtt(pr, dst, res) ==
    IF res.ok
    THEN [pr EXCEPT !.pings = PushOrInsert(@, dst, res.val.status)]
    ELSE [pr EXCEPT !.pings = PushOrInsert(@, dst, "Error")]

\* The body of ping6's drain loop for one message, written inline there.
ping6_recv(pr, dst, res) ==
    IF res.ok
    THEN LET p1 == [pr EXCEPT !.pings = PushOrInsert(@, dst, res.val.status)]
         IN  IF res.val.rtt # None
             THEN [p1 EXCEPT !.rtts = PushOrInsert(@, dst, res.val.rtt[1])]
             ELSE p1
    ELSE [pr EXCEPT !.pings = PushOrInsert(@, dst, "Error")]

\* The two loops of enrichment over the rtts map: total_rtt and total_num.
RECURSIVE SumSeq(_)
SumSeq(s) == IF s = <<>> THEN 0 ELSE s[1] + SumSeq(Tail(s))

RECURSIVE total_rtt(_)
total_rtt(rtts) ==
    IF DOMAIN rtts = {} THEN 0
    ELSE LET ip == CHOOSE k \in DOMAIN rtts : TRUE
         IN  SumSeq(rtts[ip]) + total_rtt([k \in DOMAIN rtts \ {ip} |-> rtts[k]])

\* total_num counting the addresses instead of their samples.
RECURSIVE total_num_PerAddress(_)
total_num_PerAddress(rtts) ==
    IF DOMAIN rtts = {} THEN 0
    ELSE LET ip == CHOOSE k \in DOMAIN rtts : TRUE
         IN  1 + total_num_PerAddress([k \in DOMAIN rtts \ {ip} |-> rtts[k]])

RECURSIVE total_num(_)
total_num(rtts) ==
    IF DOMAIN rtts = {} THEN 0
    ELSE LET ip == CHOOSE k \in DOMAIN rtts : TRUE
         IN  Len(rtts[ip]) + total_num([k \in DOMAIN rtts \ {ip} |-> rtts[k]])

\* Duration::from_secs_f64(total / num): the quotient as a Duration, which
\* holds whole nanoseconds. The conversion rounds to the nearest one; when
\* the quotient lies exactly half-way, the neighbour it lands on depends on
\* the binary representation of the f64 operands, so both are possible.
from_secs_f64(total, num) ==
    LET q == total \div num
        r == total % num
    IN  IF 2 * r < num THEN {q}
        ELSE IF 2 * r > num THEN {q + 1}
        ELSE {q, q + 1}

\* The values enrichment can assign to avg_rtt.
avg_rtt_of(rtts) ==
    IF total_num(rtts) # 0
    THEN {Some(a) : a \in from_secs_f64(total_rtt(rtts), total_num(rtts))}
    ELSE {None}

\* The inner loop without its break: every Up counts.
RECURSIVE alive_scan_NoBreak(_)
alive_scan_NoBreak(ps) ==
    IF ps = <<>> THEN 0
    ELSE (IF ps[1] = "Up" THEN 1 ELSE 0) + alive_scan_NoBreak(Tail(ps))

\* The inner loop of the alive-hosts pass: 1 at the first Up (break), else 0.
RECURSIVE alive_scan(_)
alive_scan(ps) ==
    IF ps = <<>> THEN 0
    ELSE IF ps[1] = "Up" THEN 1
    ELSE alive_scan(Tail(ps))

RECURSIVE alive_hosts_of(_)
alive_hosts_of(pings) ==
    IF DOMAIN pings = {} THEN 0
    ELSE LET ip == CHOOSE k \in DOMAIN pings : TRUE
         IN  alive_scan(pings[ip])
                + alive_hosts_of([k \in DOMAIN pings \ {ip} |-> pings[k]])

\* enrichment adding to the alive_hosts an earlier call left.
enrichment_AddsToCount(pr) ==
    {[pr EXCEPT !.avg_rtt = a,
                !.alive_hosts = pr.alive_hosts + alive_hosts_of(pr.pings)] :
        a \in avg_rtt_of(pr.rtts)}

\* PingResults::enrichment: the results it can leave.
enrichment(pr) ==
    {[pr EXCEPT !.avg_rtt = a, !.alive_hosts = alive_hosts_of(pr.pings)] :
        a \in avg_rtt_of(pr.rtts)}

(***************************************************************************)
(* ping / ping6.                                                           *)
(***************************************************************************)
RECURSIVE Repeat(_, _)
Repeat(x, n) == IF n = 0 THEN <<>> ELSE <<x>> \o Repeat(x, n - 1)

\* The lists of destination addresses of at most MaxHosts hosts.
HostLists == UNION {[1..n -> Addrs] : n \in 0..MaxHosts}

\* host.ports of the targets: the first host has ports, the second has none.
HostPorts(a) == IF a = "a1" THEN <<443, 22>> ELSE <<>>

\* The dst_port ping/ping6 gives the units of a host: the host's first port
\* when it has one and the method is not Icmp or Icmpv6.
dst_port_of(ports, m) ==
    IF Len(ports) > 0 /\ m # "Icmp" /\ m # "Icmpv6" THEN Some(ports[1]) ELSE None

\* What find_source_addr(src, dst)? can give: Ok(Some(s)), Ok(None) or Err.
SourceAddrResults == {"Some", "None", "Err"}

RECURSIVE BagSize(_, _)
BagSize(bag, keys) ==
    IF keys = {} THEN 0
    ELSE LET k == CHOOSE x \in keys : TRUE
         IN  bag[k] + BagSize(bag, keys \ {k})

\* The number of workers of the pool that are executing a unit.
Busy == BagSize(running, Addrs)

\* Where ping/ping6 is: in the loop over the hosts, or in the drain loop.
Submitting == pc = "run" /\ host_i < Len(hosts)
Draining == pc = "run" /\ host_i = Len(hosts)

InitPing ==
    /\ family \in Families
    /\ method \in PingMethods
    /\ hosts \in HostLists
    /\ src_found \in [DOMAIN hosts -> SourceAddrResults]
    /\ tests \in 0..MaxTests
    /\ Len(hosts) * tests <= MaxUnits
    /\ threads_num \in 1..MaxThreads
    /\ pc = "run"
    /\ host_i = 0
    /\ recv_size = 0
    /\ received = 0
    /\ jobs = <<>>
    /\ running = [a \in Addrs |-> 0]
    /\ chan = <<>>
    /\ ping_results = PingResults_new
    /\ ret = None

\* The inner loop running over 0..=tests: one unit more for the host.
SubmitHost_InclusiveRange ==
    /\ Submitting
    /\ src_found[host_i + 1] = "Some"
    /\ host_i' = host_i + 1
    /\ recv_size' = recv_size + tests + 1
    /\ jobs' = jobs \o Repeat(hosts[host_i + 1], tests + 1)
    /\ UNCHANGED <<not_ping, family, method, hosts, src_found, tests, threads_num, pc,
                   received, running, chan, ping_results, ret>>

\* One pass of the loop over the hosts: find_source_addr gives an address and
\* the inner loop submits `tests` units for the host.
SubmitHost ==
    /\ Submitting
    /\ src_found[host_i + 1] = "Some"
    /\ host_i' = host_i + 1
    /\ recv_size' = recv_size + tests
    /\ jobs' = jobs \o Repeat(hosts[host_i + 1], tests)
    /\ UNCHANGED <<not_ping, family, method, hosts, src_found, tests, threads_num, pc,
                   received, running, chan, ping_results, ret>>

\* The loop over the hosts passing over a host without a source address.
SourceAddrFails_SkipsHost ==
    /\ Submitting
    /\ src_found[host_i + 1] # "Some"
    /\ host_i' = host_i + 1
    /\ UNCHANGED <<not_ping, family, method, hosts, src_found, tests, threads_num, pc,
                   recv_size, received, jobs, running, chan, ping_results, ret>>

\* find_source_addr fails (`?`) or finds nothing: ping/ping6 returns the
\* error; the receiver is dropped, the units already submitted stay.
SourceAddrFails ==
    /\ Submitting
    /\ src_found[host_i + 1] # "Some"
    /\ ret' = Some(Err(IF src_found[host_i + 1] = "Err"
                       THEN "FindSourceAddrError"
                       ELSE "CanNotFoundSourceAddress"))
    /\ pc' = "err"
    /\ UNCHANGED <<not_ping, family, method, hosts, src_found, tests, threads_num, host_i,
                   recv_size, received, jobs, running, chan, ping_results>>

\* A pool that gives every queued unit a thread of its own.
StartUnit_NoLimit ==
    /\ jobs # <<>>
    /\ running' = [running EXCEPT ![Head(jobs)] = @ + 1]
    /\ jobs' = Tail(jobs)
    /\ UNCHANGED <<not_ping, family, method, hosts, src_found, tests, threads_num, pc,
                   host_i, recv_size, received, chan, ping_results, ret>>

\* An idle worker of the pool takes the oldest queued unit.
StartUnit ==
    /\ jobs # <<>>
    /\ Busy < threads_num
    /\ running' = [running EXCEPT ![Head(jobs)] = @ + 1]
    /\ jobs' = Tail(jobs)
    /\ UNCHANGED <<not_ping, family, method, hosts, src_found, tests, threads_num, pc,
                   host_i, recv_size, received, chan, ping_results, ret>>

\* A channel that queues the message whether or not the receiver lives.
tx_send_QueuesAlways(ch, msg) == Append(ch, msg)

\* tx.send((dst, ret)): the message is queued while the receiver lives; the
\* result of send is ignored, so a send to a dropped receiver does nothing.
tx_send(ch, msg) == IF pc = "run" THEN Append(ch, msg) ELSE ch

\* A unit that sends its result only when threads_ping returned Ok.
FinishUnit_SilentOnErr ==
    \E dst \in {a \in Addrs : running[a] > 0} :
        /\ CallsTransport(family, method)
        /\ \E reply \in TransportReplies(method) :
              LET dp == dst_port_of(HostPorts(dst), method)
                  res == IF family = "v4" THEN threads_ping(method, dp, reply)
                         ELSE threads_ping6(method, dp, reply)
              IN  chan' = IF res.ok
                          THEN tx_send(chan, [dst |-> dst, res |-> res])
                          ELSE chan
        /\ running' = [running EXCEPT ![dst] = @ - 1]
        /\ UNCHANGED <<not_ping, family, method, hosts, src_found, tests, threads_num, pc,
                       host_i, recv_size, received, jobs, ping_results, ret>>

\* A unit ends: the transport replies, threads_ping/threads_ping6 makes its
\* result of the reply, and the unit sends it with its destination.
FinishUnit ==
    \E dst \in {a \in Addrs : running[a] > 0} :
        /\ CallsTransport(family, method)
        /\ \E reply \in TransportReplies(method) :
              LET dp == dst_port_of(HostPorts(dst), method)
                  res == IF family = "v4" THEN threads_ping(method, dp, reply)
                         ELSE threads_ping6(method, dp, reply)
              IN  chan' = tx_send(chan, [dst |-> dst, res |-> res])
        /\ running' = [running EXCEPT ![dst] = @ - 1]
        /\ UNCHANGED <<not_ping, family, method, hosts, src_found, tests, threads_num, pc,
                       host_i, recv_size, received, jobs, ping_results, ret>>

\* A unit of a method the family does not support: no transport call.
FinishUnsupported ==
    \E dst \in {a \in Addrs : running[a] > 0} :
        /\ ~CallsTransport(family, method)
        /\ LET dp == dst_port_of(HostPorts(dst), method)
               res == IF family = "v4" THEN threads_ping(method, dp, None)
                      ELSE threads_ping6(method, dp, None)
           IN  chan' = tx_send(chan, [dst |-> dst, res |-> res])
        /\ running' = [running EXCEPT ![dst] = @ - 1]
        /\ UNCHANGED <<not_ping, family, method, hosts, src_found, tests, threads_num, pc,
                       host_i, recv_size, received, jobs, ping_results, ret>>

\* The drain loop finalizing the results after every message it records.
Recv_EnrichesEachTime ==
    /\ Draining
    /\ received < recv_size
    /\ chan # <<>>
    /\ received' = received + 1
    /\ chan' = Tail(chan)
    /\ ping_results' \in enrichment(
          IF family = "v4"
          THEN ping_recv(ping_results, Head(chan).dst, Head(chan).res)
          ELSE ping6_recv(ping_results, Head(chan).dst, Head(chan).res))
    /\ UNCHANGED <<not_ping, family, method, hosts, src_found, tests, threads_num, pc,
                   host_i, recv_size, jobs, running, ret>>

\* One pass of the drain loop, rx.into_iter().take(recv_size): it takes the
\* oldest message when fewer than recv_size have been taken.
Recv ==
    /\ Draining
    /\ received < recv_size
    /\ chan # <<>>
    /\ received' = received + 1
    /\ chan' = Tail(chan)
    /\ ping_results' =
          IF family = "v4"
          THEN ping_recv(ping_results, Head(chan).dst, Head(chan).res)
          ELSE ping6_recv(ping_results, Head(chan).dst, Head(chan).res)
    /\ UNCHANGED <<not_ping, family, method, hosts, src_found, tests, threads_num, pc,
                   host_i, recv_size, jobs, running, ret>>

\* The drain loop iterating the receiver without take(recv_size): it is over
\* only when every sender is dropped, the caller's own tx among them.
Return_WhenClosed ==
    /\ Draining
    /\ received = recv_size
    /\ 1 + Len(jobs) + Busy = 0
    /\ \E pr \in enrichment(ping_results) :
          /\ ping_results' = pr
          /\ ret' = Some(Ok(pr))
    /\ pc' = "done"
    /\ UNCHANGED <<not_ping, family, method, hosts, src_found, tests, threads_num, host_i,
                   recv_size, received, jobs, running, chan>>

\* The drain loop is over once recv_size messages are taken: enrichment,
\* then Ok(ping_results).
Return ==
    /\ Draining
    /\ received = recv_size
    /\ \E pr \in enrichment(ping_results) :
          /\ ping_results' = pr
          /\ ret' = Some(Ok(pr))
    /\ pc' = "done"
    /\ UNCHANGED <<not_ping, family, method, hosts, src_found, tests, threads_num, host_i,
                   recv_size, received, jobs, running, chan>>

NextPing ==
    \/ SubmitHost
    \/ SourceAddrFails
    \/ StartUnit
    \/ FinishUnit
    \/ FinishUnsupported
    \/ Recv
    \/ Return

(***************************************************************************)
(* One call of threads_ping / threads_ping6 on any method and any reply.   *)
(***************************************************************************)
\* The dst_port arguments of the calls.
DstPortArgs == {None, Some(80), Some(443)}

\* The arguments of a call and what the transport will reply to it.
ClassifyArgs ==
    {a \in [family : Families, method : PingMethods, dport : DstPortArgs,
            reply : TransportReplies("Syn") \cup TransportReplies("Icmp")] :
        a.reply \in TransportReplies(a.method)}

InitClassify ==
    /\ \E a \in ClassifyArgs :
          /\ c_family = a.family /\ c_method = a.method
          /\ c_dst_port = a.dport /\ c_reply = a.reply
    /\ c_ret = None
    /\ c_prev = None

\* The call runs and returns.
Classify ==
    /\ c_ret = None
    /\ c_ret' = Some(IF c_family = "v4"
                     THEN threads_ping(c_method, c_dst_port, c_reply)
                     ELSE threads_ping6(c_method, c_dst_port, c_reply))
    /\ UNCHANGED <<c_family, c_method, c_dst_port, c_reply, c_prev, not_classify>>

\* After the first call, the next unit of the pool calls with arguments of
\* its own.
CallAgain ==
    /\ c_ret # None
    /\ c_prev = None
    /\ \E a \in ClassifyArgs :
          /\ c_family' = a.family /\ c_method' = a.method
          /\ c_dst_port' = a.dport /\ c_reply' = a.reply
    /\ c_prev' = Some([family |-> c_family, method |-> c_method,
                       dport |-> c_dst_port, reply |-> c_reply, ret |-> c_ret[1]])
    /\ c_ret' = None
    /\ UNCHANGED not_classify

NextClassify == Classify \/ CallAgain

(***************************************************************************)
(* ping / ping6 seen from the closures: the source port, what each unit    *)
(* captures when it is submitted and what it passes to the transport when  *)
(* it runs. The pool, the channel and the drain loop are in SpecPing.      *)
(***************************************************************************)
SYN_PING_DEFAULT_PORT == 80
ACK_PING_DEFAULT_PORT == 80
UDP_PING_DEFAULT_PORT == 125

\* The src_port arguments of the calls, and what random_port() can return.
SrcPortArgs == {None, Some(4000)}
RandomPorts == {5000, 5001}

\* threads_ping / threads_ping6 with the UDP arm falling back to the SYN port.
transport_call_UdpDefaultAsSyn(fam, m, sport, dport) ==
    CASE ~CallsTransport(fam, m) -> None
      [] m \in {"Icmp", "Icmpv6"} ->
            Some([fn |-> "icmp", src_port |-> None, dst_port |-> None])
      [] OTHER ->
            Some([fn |-> m, src_port |-> Some(sport),
                  dst_port |-> Some(IF dport # None THEN dport[1]
                                    ELSE SYN_PING_DEFAULT_PORT)])

\* The transport call threads_ping / threads_ping6 makes for its arguments:
\* None when the method is unsupported in the family, else the function
\* called with the ports it is given. The ICMP transports take no port.
transport_call(fam, m, sport, dport) ==
    CASE ~CallsTransport(fam, m) -> None
      [] m \in {"Icmp", "Icmpv6"} ->
            Some([fn |-> "icmp", src_port |-> None, dst_port |-> None])
      [] OTHER ->
            Some([fn |-> m, src_port |-> Some(sport),
                  dst_port |-> Some(IF dport # None THEN dport[1]
                                    ELSE CASE m = "Syn" -> SYN_PING_DEFAULT_PORT
                                           [] m = "Ack" -> ACK_PING_DEFAULT_PORT
                                           [] m = "Udp" -> UDP_PING_DEFAULT_PORT)])

InitUnits ==
    /\ u_family \in Families
    /\ u_method \in PingMethods
    /\ u_hosts \in HostLists
    /\ u_tests \in 0..MaxTests
    /\ Len(u_hosts) * u_tests <= MaxUnits
    /\ u_src_port_arg \in SrcPortArgs
    /\ u_src_port = None
    /\ u_pc = "start"
    /\ u_host_i = 0
    /\ u_units = <<>>
    /\ u_sent = <<>>

\* The first statement: the argument's port, or one random port.
ChooseSrcPort ==
    /\ u_pc = "start"
    /\ IF u_src_port_arg # None
       THEN u_src_port' = u_src_port_arg
       ELSE \E p \in RandomPorts : u_src_port' = Some(p)
    /\ u_pc' = "submit"
    /\ UNCHANGED <<u_family, u_method, u_hosts, u_tests, u_src_port_arg, u_host_i,
                   u_units, u_sent, not_units>>

\* The closures of one host, each capturing the source port and the host's
\* address and dst_port.
Closures(sport, dst, m, n) ==
    Repeat([src_port |-> sport, dst |-> dst,
            dst_port |-> dst_port_of(HostPorts(dst), m)], n)

\* The loop drawing a random port for each host.
SubmitUnits_PortPerHost ==
    /\ u_pc = "submit"
    /\ u_host_i < Len(u_hosts)
    /\ u_host_i' = u_host_i + 1
    /\ IF u_src_port_arg # None
       THEN u_src_port' = u_src_port_arg
       ELSE \E p \in RandomPorts : u_src_port' = Some(p)
    /\ u_units' = u_units \o Closures(u_src_port'[1], u_hosts[u_host_i + 1],
                                      u_method, u_tests)
    /\ UNCHANGED <<u_family, u_method, u_hosts, u_tests, u_src_port_arg, u_pc,
                   u_sent, not_units>>

\* One pass of the loop over the hosts when find_source_addr gives an
\* address: `tests` closures go to the pool.
SubmitUnits ==
    /\ u_pc = "submit"
    /\ u_host_i < Len(u_hosts)
    /\ u_host_i' = u_host_i + 1
    /\ u_units' = u_units \o Closures(u_src_port[1], u_hosts[u_host_i + 1],
                                      u_method, u_tests)
    /\ UNCHANGED <<u_family, u_method, u_hosts, u_tests, u_src_port_arg, u_src_port,
                   u_pc, u_sent, not_units>>

\* The pass when find_source_addr fails or gives None: the call returns Err
\* and the closures already in the pool stay there.
SubmitUnitsFails ==
    /\ u_pc = "submit"
    /\ u_host_i < Len(u_hosts)
    /\ u_pc' = "err"
    /\ UNCHANGED <<u_family, u_method, u_hosts, u_tests, u_src_port_arg, u_src_port,
                   u_host_i, u_units, u_sent, not_units>>

\* A closure that has not run yet runs: threads_ping / threads_ping6 is
\* called with what the closure captured.
RunUnit ==
    \E i \in DOMAIN u_units \ DOMAIN u_sent :
        /\ u_sent' = u_sent @@ (i :> transport_call(u_family, u_method,
                                                    u_units[i].src_port,
                                                    u_units[i].dst_port))
        /\ UNCHANGED <<u_family, u_method, u_hosts, u_tests, u_src_port_arg,
                       u_src_port, u_pc, u_host_i, u_units, not_units>>

NextUnits ==
    \/ ChooseSrcPort
    \/ SubmitUnits
    \/ SubmitUnitsFails
    \/ RunUnit

(***************************************************************************)
(* ipv4_get_hops / ipv6_get_hops: the sweep over the TTLs.                 *)
(***************************************************************************)
MaxTtl == 30

\* send_icmp_ping_packet / send_icmpv6_ping_packet with a TTL: Ok(bool) or Err.
HopReplies == {Ok(TRUE), Ok(FALSE), Err("Transport")}

\* The sweep starting from TTL 0.
InitHop_FromZero ==
    /\ h_family \in Families
    /\ ttl = 0
    /\ h_probes = <<>>
    /\ h_ret = None

InitHop ==
    /\ h_family \in Families
    /\ ttl = 1
    /\ h_probes = <<>>
    /\ h_ret = None

\* The sweep taking a failure of the transport for a silence.
get_hops_step_ErrAsSilence(fam) ==
    /\ h_family = fam
    /\ h_ret = None
    /\ ttl <= MaxTtl
    /\ \E reply \in HopReplies :
          /\ h_probes' = Append(h_probes, [ttl |-> ttl, reply |-> reply])
          /\ IF reply.ok /\ reply.val THEN h_ret' = Some(Ok(ttl)) /\ ttl' = ttl
             ELSE h_ret' = h_ret /\ ttl' = ttl + 1
    /\ UNCHANGED <<h_family, not_hop>>

\* One pass of `for ttl in 1..=30`: send the probe; `?` returns the error,
\* a true reply returns the TTL, a false one goes on to the next TTL.
get_hops_step(fam) ==
    /\ h_family = fam
    /\ h_ret = None
    /\ ttl <= MaxTtl
    /\ \E reply \in HopReplies :
          /\ h_probes' = Append(h_probes, [ttl |-> ttl, reply |-> reply])
          /\ IF ~reply.ok THEN h_ret' = Some(reply) /\ ttl' = ttl
             ELSE IF reply.val THEN h_ret' = Some(Ok(ttl)) /\ ttl' = ttl
             ELSE h_ret' = h_ret /\ ttl' = ttl + 1
    /\ UNCHANGED <<h_family, not_hop>>

\* The sweep reporting an exhausted range as an error.
get_hops_end_AsError(fam) ==
    /\ h_family = fam
    /\ h_ret = None
    /\ ttl > MaxTtl
    /\ h_ret' = Some(Err("Unreachable"))
    /\ UNCHANGED <<h_family, ttl, h_probes, not_hop>>

\* The loop is over without a true reply: Ok(0).
get_hops_end(fam) ==
    /\ h_family = fam
    /\ h_ret = None
    /\ ttl > MaxTtl
    /\ h_ret' = Some(Ok(0))
    /\ UNCHANGED <<h_family, ttl, h_probes, not_hop>>

ipv4_get_hops == get_hops_step("v4") \/ get_hops_end("v4")
ipv6_get_hops == get_hops_step("v6") \/ get_hops_end("v6")

NextHop == ipv4_get_hops \/ ipv6_get_hops

(***************************************************************************)
(* threads_vs_probe: connect, NULL stage, TCP continuation, UDP probes.    *)
(*                                                                         *)
(* The buffers hold TCP_BUFF_SIZE / UDP_BUFF_SIZE bytes in the code and    *)
(* BuffSize bytes here. A byte is "b" (what the patterns of the database   *)
(* look for), "x" (any other byte the peer sends) or "0" (the zero the     *)
(* buffer is filled with). The setters of the socket options are taken to  *)
(* succeed on a connected socket.                                          *)
(***************************************************************************)
BuffSize == 2

Zeros == [i \in 1..BuffSize |-> "0"]

\* What one read or recv can deliver.
Chunks == {<<"x">>, <<"b">>, <<"b", "x">>}

\* stream.read(&mut recv_buff) returning Len(chunk): the chunk lands at the
\* start of the buffer, the rest of the buffer stays.
read_into(buff, chunk) ==
    [i \in 1..BuffSize |-> IF i <= Len(chunk) THEN chunk[i] ELSE buff[i]]

\* The probes of the database. `pat` and `service` stand for the probe's
\* match rules: its check finds `service` in a text that holds `pat`.
ProbeNull ==
    [probename |-> "NULL", protocol |-> "Tcp", rarity |-> None, ports |-> None,
     sslports |-> None, pat |-> "b", service |-> "ssh"]
ProbeGet ==
    [probename |-> "GetRequest", protocol |-> "Tcp", rarity |-> Some(1),
     ports |-> Some({80}), sslports |-> None, pat |-> "b", service |-> "http"]
ProbeSsl ==
    [probename |-> "SSLSessionReq", protocol |-> "Tcp", rarity |-> None,
     ports |-> None, sslports |-> Some({443}), pat |-> "x", service |-> "ssl"]
ProbeDns ==
    [probename |-> "DNSStatusRequest", protocol |-> "Udp", rarity |-> None,
     ports |-> Some({80}), sslports |-> Some({443}), pat |-> "b", service |-> "domain"]
ProbeSnmp ==
    [probename |-> "SNMPv1public", protocol |-> "Udp", rarity |-> Some(1),
     ports |-> None, sslports |-> None, pat |-> "x", service |-> "snmp"]

Catalogue == {ProbeNull, ProbeGet, ProbeSsl, ProbeDns, ProbeSnmp}

\* The databases: at most MaxProbes probes of the catalogue, in any order.
Databases ==
    UNION {{db \in [1..n -> Catalogue] : \A i, j \in 1..n : db[i] = db[j] => i = j} :
              n \in 0..MaxProbes}

DstPorts == {80, 443, 9}
Intensities == {0, 7}

\* ServiceProbe::check(text): the matches of the probe on the text.
check(sp, text) ==
    IF \E i \in DOMAIN text : text[i] = sp.pat
    THEN <<[service |-> sp.service, probename |-> sp.probename]>>
    ELSE <<>>

\* The loop of tcp_null_probe over the database: the checks of the probes
\* named NULL on the text.
RECURSIVE null_checks(_, _)
null_checks(probes, text) ==
    IF probes = <<>> THEN <<>>
    ELSE (IF Head(probes).probename = "NULL" THEN check(Head(probes), text) ELSE <<>>)
            \o null_checks(Tail(probes), text)

rarity_of(sp) == IF sp.rarity # None THEN sp.rarity[1] ELSE 0

\* `ports` of tcp_continue_probe made of the probe's ports alone.
tcp_ports_PortsOnly(sp) == IF sp.ports # None THEN sp.ports[1] ELSE {}

\* `ports` of tcp_continue_probe: the probe's ports and its sslports.
tcp_ports(sp) ==
    (IF sp.ports # None THEN sp.ports[1] ELSE {})
        \cup (IF sp.sslports # None THEN sp.sslports[1] ELSE {})

\* `ports` of udp_probe taking the sslports too, as tcp_continue_probe does.
udp_ports_WithSslPorts(sp) ==
    (IF sp.ports # None THEN sp.ports[1] ELSE {})
        \cup (IF sp.sslports # None THEN sp.sslports[1] ELSE {})

\* `ports` of udp_probe: the probe's ports.
udp_ports(sp) == IF sp.ports # None THEN sp.ports[1] ELSE {}

\* The condition of tcp_continue_probe without the test of the protocol.
tcp_runs_AnyProtocol(sp) ==
    /\ sp.probename # "NULL"
    /\ intensity >= rarity_of(sp)
    /\ IF only_tcp_recommended THEN dst_port \in tcp_ports(sp) ELSE TRUE

\* Whether the loop of tcp_continue_probe runs the probe.
tcp_runs(sp) ==
    /\ sp.probename # "NULL"
    /\ sp.protocol = "Tcp"
    /\ intensity >= rarity_of(sp)
    /\ IF only_tcp_recommended THEN dst_port \in tcp_ports(sp) ELSE TRUE

\* Whether the loop of udp_probe runs the probe.
udp_runs(sp) ==
    /\ sp.probename # "NULL"
    /\ sp.protocol = "Udp"
    /\ intensity >= rarity_of(sp)
    /\ IF only_udp_recommended THEN dst_port \in udp_ports(sp) ELSE TRUE

Op(name, i) == [op |-> name, i |-> i]

InitVs ==
    /\ dst_port \in DstPorts
    /\ only_null_probe \in BOOLEAN
    /\ only_tcp_recommended \in BOOLEAN
    /\ only_udp_recommended \in BOOLEAN
    /\ intensity \in Intensities
    /\ service_probes \in Databases
    /\ v_pc = "connect"
    /\ connect_ret = None
    /\ null_probe_ret = None
    /\ sp_i = 0
    /\ recv_buff = Zeros
    /\ recv_all_buff = <<>>
    /\ reads = 0
    /\ v_matches = <<>>
    /\ v_log = <<>>
    /\ v_ret = None

\* The call returns.
vs_return(r) == v_ret' = Some(r) /\ v_pc' = "done"

\* connect_timeout whose failure starts the UDP probes instead of returning.
Connect_FailureGoesToUdp ==
    /\ v_pc = "connect"
    /\ v_log' = Append(v_log, Op("connect", 0))
    /\ \E connected \in BOOLEAN :
          IF connected
          THEN /\ connect_ret' = Some(Ok("stream"))
               /\ v_pc' = "null"
               /\ recv_buff' = Zeros
               /\ recv_all_buff' = <<>>
               /\ reads' = 0
               /\ UNCHANGED v_ret
          ELSE /\ connect_ret' = Some(Err("Io"))
               /\ v_pc' = "udp_bind"
               /\ UNCHANGED v_ret
               /\ UNCHANGED <<recv_buff, recv_all_buff, reads>>
    /\ UNCHANGED <<vs_args, null_probe_ret, sp_i, v_matches, not_vs>>

\* TcpStream::connect_timeout: a stream, or an error that ends the call
\* with Ok and no match.
Connect ==
    /\ v_pc = "connect"
    /\ v_log' = Append(v_log, Op("connect", 0))
    /\ \E connected \in BOOLEAN :
          IF connected
          THEN /\ connect_ret' = Some(Ok("stream"))
               /\ v_pc' = "null"
               /\ recv_buff' = Zeros
               /\ recv_all_buff' = <<>>
               /\ reads' = 0
               /\ UNCHANGED v_ret
          ELSE /\ connect_ret' = Some(Err("Io"))
               /\ vs_return(Ok(<<>>))
               /\ UNCHANGED <<recv_buff, recv_all_buff, reads>>
    /\ UNCHANGED <<vs_args, null_probe_ret, sp_i, v_matches, not_vs>>

\* A read of the NULL stage that returns data.
NullRead ==
    /\ v_pc = "null"
    /\ reads < MaxReads
    /\ \E chunk \in Chunks :
          /\ recv_buff' = read_into(recv_buff, chunk)
          /\ recv_all_buff' = recv_all_buff \o read_into(recv_buff, chunk)
    /\ reads' = reads + 1
    /\ v_log' = Append(v_log, Op("read", 0))
    /\ UNCHANGED <<vs_args, connect_ret, null_probe_ret, v_pc, sp_i, v_matches,
                   v_ret, not_vs>>

\* What tcp_null_probe returns when its read loop is over.
tcp_null_probe(probes, buff, all_buff) ==
    IF Len(all_buff) > 0 THEN null_checks(probes, buff) ELSE <<>>

\* The NULL stage whose matches start the continuation instead of ending
\* the call.
NullEnd_MatchGoesOn ==
    /\ v_pc = "null"
    /\ v_log' = Append(v_log, Op("read", 0))
    /\ LET r == tcp_null_probe(service_probes, recv_buff, recv_all_buff)
       IN  /\ null_probe_ret' = Some(r)
           /\ IF only_null_probe
              THEN vs_return(Ok(r)) /\ UNCHANGED <<sp_i, v_matches>>
              ELSE v_pc' = "tcp" /\ sp_i' = 1 /\ v_matches' = r /\ UNCHANGED v_ret
    /\ UNCHANGED <<vs_args, connect_ret, recv_buff, recv_all_buff, reads,
                   not_vs>>

\* The NULL stage going on to the continuation whatever only_null_probe says.
NullEnd_FlagIgnored ==
    /\ v_pc = "null"
    /\ v_log' = Append(v_log, Op("read", 0))
    /\ LET r == tcp_null_probe(service_probes, recv_buff, recv_all_buff)
       IN  /\ null_probe_ret' = Some(r)
           /\ IF Len(r) > 0
              THEN vs_return(Ok(r)) /\ UNCHANGED <<sp_i, v_matches>>
              ELSE v_pc' = "tcp" /\ sp_i' = 1 /\ v_matches' = <<>> /\ UNCHANGED v_ret
    /\ UNCHANGED <<vs_args, connect_ret, recv_buff, recv_all_buff, reads,
                   not_vs>>

\* The read of the NULL stage that returns 0 or fails: tcp_null_probe
\* returns; with a match the call returns it, with only_null_probe it
\* returns no match, otherwise the TCP continuation starts.
NullEnd ==
    /\ v_pc = "null"
    /\ v_log' = Append(v_log, Op("read", 0))
    /\ LET r == tcp_null_probe(service_probes, recv_buff, recv_all_buff)
       IN  /\ null_probe_ret' = Some(r)
           /\ IF Len(r) > 0
              THEN vs_return(Ok(r)) /\ UNCHANGED <<sp_i, v_matches>>
              ELSE IF only_null_probe
              THEN vs_return(Ok(<<>>)) /\ UNCHANGED <<sp_i, v_matches>>
              ELSE v_pc' = "tcp" /\ sp_i' = 1 /\ v_matches' = <<>> /\ UNCHANGED v_ret
    /\ UNCHANGED <<vs_args, connect_ret, recv_buff, recv_all_buff, reads,
                   not_vs>>

\* One pass of the loop of tcp_continue_probe: a probe the loop does not
\* run is passed over; for one it runs, run_probe writes the probe string,
\* and a failed write returns the error from the call.
TcpProbe ==
    /\ v_pc = "tcp"
    /\ sp_i <= Len(service_probes)
    /\ IF tcp_runs(service_probes[sp_i])
       THEN /\ v_log' = Append(v_log, Op("write", sp_i))
            /\ \E written \in BOOLEAN :
                  IF written
                  THEN /\ v_pc' = "tcp_read"
                       /\ recv_buff' = Zeros
                       /\ recv_all_buff' = <<>>
                       /\ reads' = 0
                       /\ UNCHANGED <<sp_i, v_ret>>
                  ELSE /\ vs_return(Err("Io"))
                       /\ UNCHANGED <<sp_i, recv_buff, recv_all_buff, reads>>
       ELSE /\ sp_i' = sp_i + 1
            /\ UNCHANGED <<v_pc, v_log, recv_buff, recv_all_buff, reads, v_ret>>
    /\ UNCHANGED <<vs_args, connect_ret, null_probe_ret, v_matches, not_vs>>

\* A read of run_probe that returns data.
TcpRead ==
    /\ v_pc = "tcp_read"
    /\ reads < MaxReads
    /\ \E chunk \in Chunks :
          /\ recv_buff' = read_into(recv_buff, chunk)
          /\ recv_all_buff' = recv_all_buff \o read_into(recv_buff, chunk)
    /\ reads' = reads + 1
    /\ v_log' = Append(v_log, Op("read", sp_i))
    /\ UNCHANGED <<vs_args, connect_ret, null_probe_ret, v_pc, sp_i, v_matches,
                   v_ret, not_vs>>

\* What run_probe of tcp_continue_probe returns when its read loop is over.
tcp_run_probe(sp, all_buff) ==
    IF Len(all_buff) > 0 THEN check(sp, all_buff) ELSE <<>>

\* The read of run_probe that returns 0 or fails: the matches of the probe
\* extend `ret` and the loop goes on to the next probe.
TcpReadEnd ==
    /\ v_pc = "tcp_read"
    /\ v_log' = Append(v_log, Op("read", sp_i))
    /\ v_matches' = v_matches \o tcp_run_probe(service_probes[sp_i], recv_all_buff)
    /\ sp_i' = sp_i + 1
    /\ v_pc' = "tcp"
    /\ UNCHANGED <<vs_args, connect_ret, null_probe_ret, recv_buff,
                   recv_all_buff, reads, v_ret, not_vs>>

\* The end of the loop of tcp_continue_probe going on to udp_probe whatever
\* the loop matched.
TcpEnd_AlwaysUdp ==
    /\ v_pc = "tcp"
    /\ sp_i > Len(service_probes)
    /\ v_pc' = "udp_bind" /\ UNCHANGED v_ret
    /\ UNCHANGED <<vs_args, connect_ret, null_probe_ret, sp_i, recv_buff,
                   recv_all_buff, reads, v_matches, v_log, not_vs>>

\* The loop of tcp_continue_probe is over: with a match the call returns
\* `ret`, without one it goes on to udp_probe.
TcpEnd ==
    /\ v_pc = "tcp"
    /\ sp_i > Len(service_probes)
    /\ IF Len(v_matches) > 0
       THEN vs_return(Ok(v_matches))
       ELSE v_pc' = "udp_bind" /\ UNCHANGED v_ret
    /\ UNCHANGED <<vs_args, connect_ret, null_probe_ret, sp_i, recv_buff,
                   recv_all_buff, reads, v_matches, v_log, not_vs>>

\* The start of udp_probe: UdpSocket::bind and connect; a failure (`?`)
\* returns the error from the call.
UdpBind ==
    /\ v_pc = "udp_bind"
    /\ v_log' = Append(v_log, Op("bind", 0))
    /\ \E bound \in BOOLEAN :
          IF bound
          THEN v_pc' = "udp" /\ sp_i' = 1 /\ v_matches' = <<>> /\ UNCHANGED v_ret
          ELSE vs_return(Err("Io")) /\ UNCHANGED <<sp_i, v_matches>>
    /\ UNCHANGED <<vs_args, connect_ret, null_probe_ret, recv_buff,
                   recv_all_buff, reads, not_vs>>

\* What run_probe of udp_probe returns after a recv of the chunk (<<>> when
\* recv fails or returns 0): the check of the whole buffer.
udp_run_probe(sp, chunk) ==
    IF Len(chunk) > 0 THEN check(sp, read_into(Zeros, chunk)) ELSE <<>>

\* One pass of the loop of udp_probe: a probe the loop does not run is
\* passed over; for one it runs, run_probe sends the probe string (a failed
\* send returns the error from the call) and receives once.
UdpProbe ==
    /\ v_pc = "udp"
    /\ sp_i <= Len(service_probes)
    /\ IF udp_runs(service_probes[sp_i])
       THEN /\ v_log' = Append(v_log, Op("send", sp_i))
            /\ \E sent \in BOOLEAN :
                  IF sent
                  THEN /\ \E chunk \in Chunks \cup {<<>>} :
                             v_matches' = v_matches
                                 \o udp_run_probe(service_probes[sp_i], chunk)
                       /\ sp_i' = sp_i + 1
                       /\ UNCHANGED <<v_pc, v_ret>>
                  ELSE /\ vs_return(Err("Io"))
                       /\ UNCHANGED <<sp_i, v_matches>>
       ELSE /\ sp_i' = sp_i + 1
            /\ UNCHANGED <<v_pc, v_log, v_matches, v_ret>>
    /\ UNCHANGED <<vs_args, connect_ret, null_probe_ret, recv_buff,
                   recv_all_buff, reads, not_vs>>

\* The loop of udp_probe is over: the call returns its matches.
UdpEnd ==
    /\ v_pc = "udp"
    /\ sp_i > Len(service_probes)
    /\ vs_return(Ok(v_matches))
    /\ UNCHANGED <<vs_args, connect_ret, null_probe_ret, sp_i, recv_buff,
                   recv_all_buff, reads, v_matches, v_log, not_vs>>

NextVs ==
    \/ Connect
    \/ NullRead
    \/ NullEnd
    \/ TcpProbe
    \/ TcpRead
    \/ TcpReadEnd
    \/ TcpEnd
    \/ UdpBind
    \/ UdpProbe
    \/ UdpEnd

(***************************************************************************)
(* RouteTable::init (Linux): the loop over the lines of `ip route`.        *)
(*                                                                         *)
(* A line is what the loop looks at in it: whether it contains "default",  *)
(* whether the regex of its branch captures, and the via, subnet and dev   *)
(* strings captured. The parsers and the interface lookup are tables over  *)
(* the strings of the catalogue.                                           *)
(***************************************************************************)
MaxLines == 3

LineDefault4 ==
    [default |-> TRUE, caps |-> TRUE, via |-> "192.168.72.2", subnet |-> "",
     dev |-> "ens33"]
LineDefault4b ==
    [default |-> TRUE, caps |-> TRUE, via |-> "192.168.1.1", subnet |-> "",
     dev |-> "ens36"]
LineDefault6 ==
    [default |-> TRUE, caps |-> TRUE, via |-> "fe80::1", subnet |-> "",
     dev |-> "ens33"]
LineDefaultBadVia ==
    [default |-> TRUE, caps |-> TRUE, via |-> "192.168.72.2 onlink", subnet |-> "",
     dev |-> "ens33"]
LineDefaultNoDev ==
    [default |-> TRUE, caps |-> TRUE, via |-> "192.168.72.2", subnet |-> "",
     dev |-> "tun9"]
LineDefaultNoMatch ==
    [default |-> TRUE, caps |-> FALSE, via |-> "", subnet |-> "", dev |-> ""]
LineRouteA ==
    [default |-> FALSE, caps |-> TRUE, via |-> "", subnet |-> "192.168.1.0/24",
     dev |-> "ens36"]
LineRouteA2 ==
    [default |-> FALSE, caps |-> TRUE, via |-> "", subnet |-> "192.168.1.0/24",
     dev |-> "ens33"]
LineRouteB ==
    [default |-> FALSE, caps |-> TRUE, via |-> "", subnet |-> "192.168.72.0/24",
     dev |-> "ens33"]
LineRouteBadNet ==
    [default |-> FALSE, caps |-> TRUE, via |-> "", subnet |-> "192.168.1.0/99",
     dev |-> "ens36"]
LineRouteNoDev ==
    [default |-> FALSE, caps |-> TRUE, via |-> "", subnet |-> "10.8.0.0/24",
     dev |-> "tun9"]
LineNoMatch ==
    [default |-> FALSE, caps |-> FALSE, via |-> "", subnet |-> "", dev |-> ""]

RouteLines ==
    {LineDefault4, LineDefault4b, LineDefault6, LineDefaultBadVia, LineDefaultNoDev,
     LineDefaultNoMatch, LineRouteA, LineRouteA2, LineRouteB, LineRouteBadNet,
     LineRouteNoDev, LineNoMatch}

\* str.parse::<IpAddr>()
parse_IpAddr(str) ==
    IF str \in {"192.168.72.2", "192.168.1.1", "fe80::1"}
    THEN Ok(str) ELSE Err("AddrParseError")

\* IpNetwork::from_str(str)
IpNetwork_from_str(str) ==
    IF str \in {"192.168.1.0/24", "192.168.72.0/24", "10.8.0.0/24"}
    THEN Ok(str) ELSE Err("IpNetworkError")

\* str.contains(":") and str.contains("/")
contains_colon(str) == str \in {"fe80::1"}
contains_slash(str) ==
    str \in {"192.168.1.0/24", "192.168.72.0/24", "10.8.0.0/24", "192.168.1.0/99"}

\* find_interface_by_name(dev_str): the interfaces of the machine.
Interfaces == {"ens33", "ens36"}
find_interface_by_name(dev_str) ==
    IF dev_str \in Interfaces THEN Some(dev_str) ELSE None

\* HashMap::insert(k, v)
MapInsert(map, k, v) ==
    [x \in DOMAIN map \cup {k} |-> IF x = k THEN v ELSE map[x]]

\* The body of the loop keeping a default route it already has.
route_line_FirstDefaultWins(line, st) ==
    IF line.default
    THEN IF ~line.caps THEN st
         ELSE IF ~parse_IpAddr(line.via).ok THEN st
         ELSE IF find_interface_by_name(line.dev) = None THEN st
         ELSE LET default_route == [via |-> parse_IpAddr(line.via).val,
                                    dev |-> find_interface_by_name(line.dev)[1]]
              IN  IF ~contains_colon(line.via)
                  THEN IF st.default_ipv4_route # None THEN st
                       ELSE [st EXCEPT !.default_ipv4_route = Some(default_route)]
                  ELSE IF st.default_ipv6_route # None THEN st
                       ELSE [st EXCEPT !.default_ipv6_route = Some(default_route)]
    ELSE IF ~line.caps THEN st
         ELSE LET dst == IF contains_slash(line.subnet)
                         THEN IpNetwork_from_str(line.subnet)
                         ELSE parse_IpAddr(line.subnet)
                  kind == IF contains_slash(line.subnet) THEN "IpNetwork" ELSE "IpAddr"
              IN  IF ~dst.ok THEN st
                  ELSE IF find_interface_by_name(line.dev) = None THEN st
                  ELSE [st EXCEPT !.routes =
                           MapInsert(@, [kind |-> kind, addr |-> dst.val],
                                     find_interface_by_name(line.dev)[1])]

\* The body of the loop for one line, on the three locals: every `continue`
\* and every arm that only warns leaves them as they are.
route_line(line, st) ==
    IF line.default
    THEN IF ~line.caps THEN st
         ELSE IF ~parse_IpAddr(line.via).ok THEN st
         ELSE IF find_interface_by_name(line.dev) = None THEN st
         ELSE LET default_route == [via |-> parse_IpAddr(line.via).val,
                                    dev |-> find_interface_by_name(line.dev)[1]]
              IN  IF ~contains_colon(line.via)
                  THEN [st EXCEPT !.default_ipv4_route = Some(default_route)]
                  ELSE [st EXCEPT !.default_ipv6_route = Some(default_route)]
    ELSE IF ~line.caps THEN st
         ELSE LET dst == IF contains_slash(line.subnet)
                         THEN IpNetwork_from_str(line.subnet)
                         ELSE parse_IpAddr(line.subnet)
                  kind == IF contains_slash(line.subnet) THEN "IpNetwork" ELSE "IpAddr"
              IN  IF ~dst.ok THEN st
                  ELSE IF find_interface_by_name(line.dev) = None THEN st
                  ELSE [st EXCEPT !.routes =
                           MapInsert(@, [kind |-> kind, addr |-> dst.val],
                                     find_interface_by_name(line.dev)[1])]

InitRoute ==
    /\ r_lines \in {Err("Io")} \cup
          {Ok(l) : l \in UNION {[1..n -> RouteLines] : n \in 0..MaxLines}}
    /\ r_pc = "lines"
    /\ r_i = 0
    /\ default_ipv4_route = None
    /\ default_ipv6_route = None
    /\ routes = EmptyMap
    /\ r_ret = None

\* system_route_lines()?: the commands ran and the loop starts, or the
\* error of the command is returned.
system_route_lines ==
    /\ r_pc = "lines"
    /\ IF r_lines.ok
       THEN r_pc' = "loop" /\ UNCHANGED r_ret
       ELSE r_pc' = "done" /\ r_ret' = Some(r_lines)
    /\ UNCHANGED <<r_lines, r_i, default_ipv4_route, default_ipv6_route, routes,
                   not_route>>

\* One pass of the loop over the lines.
RouteLine ==
    /\ r_pc = "loop"
    /\ r_i < Len(r_lines.val)
    /\ LET st == route_line(r_lines.val[r_i + 1],
                            [default_ipv4_route |-> default_ipv4_route,
                             default_ipv6_route |-> default_ipv6_route,
                             routes |-> routes])
       IN  /\ default_ipv4_route' = st.default_ipv4_route
           /\ default_ipv6_route' = st.default_ipv6_route
           /\ routes' = st.routes
    /\ r_i' = r_i + 1
    /\ UNCHANGED <<r_lines, r_pc, r_ret, not_route>>

\* The loop is over: Ok(RouteTable { .. }) of the three locals.
RouteInitEnd ==
    /\ r_pc = "loop"
    /\ r_i = Len(r_lines.val)
    /\ r_ret' = Some(Ok([default_route |-> default_ipv4_route,
                         default_route6 |-> default_ipv6_route,
                         routes |-> routes]))
    /\ r_pc' = "done"
    /\ UNCHANGED <<r_lines, r_i, default_ipv4_route, default_ipv6_route, routes,
                   not_route>>

NextRoute ==
    \/ system_route_lines
    \/ RouteLine
    \/ RouteInitEnd

(***************************************************************************)
(* SystemNetCache: search_mac, update_neighbor_cache, search_route.        *)
(***************************************************************************)
CacheIps == {"10.0.0.5", "10.0.1.7", "8.8.8.8"}
Macs == {"00:0c:29:1f:6f:71", "00:50:56:c0:00:08"}

\* The keys of the routes map: a host route and two networks, one inside
\* the other.
RouteAddrs ==
    {[kind |-> "IpAddr", addr |-> "10.0.0.5"],
     [kind |-> "IpNetwork", addr |-> "10.0.0.0/24"],
     [kind |-> "IpNetwork", addr |-> "10.0.0.0/16"]}

\* IpNetwork::contains(ipaddr) on the networks and addresses above.
network_contains(net, ipaddr) ==
    CASE net = "10.0.0.0/24" -> ipaddr \in {"10.0.0.5"}
      [] net = "10.0.0.0/16" -> ipaddr \in {"10.0.0.5", "10.0.1.7"}
      [] OTHER -> FALSE

\* The maps with some of the keys K and values in V.
Maps(K, V) == UNION {[D -> V] : D \in SUBSET K}

InitCache ==
    /\ snc \in [default_route : {None, Some([via |-> "192.168.72.2", dev |-> "ens33"])},
                default_route6 : {None},
                routes : Maps(RouteAddrs, Interfaces),
                neighbor : {EmptyMap}]
    /\ last_call = None

\* search_mac(&self, ipaddr)
search_mac(c, ipaddr) ==
    IF ipaddr \in DOMAIN c.neighbor THEN Some(c.neighbor[ipaddr]) ELSE None

\* update_neighbor_cache keeping the entry an address already has.
update_neighbor_cache_KeepsOld(c, ipaddr, mac) ==
    IF ipaddr \in DOMAIN c.neighbor THEN c
    ELSE [c EXCEPT !.neighbor = MapInsert(@, ipaddr, mac)]

\* update_neighbor_cache(&mut self, ipaddr, mac)
update_neighbor_cache(c, ipaddr, mac) ==
    [c EXCEPT !.neighbor = MapInsert(@, ipaddr, mac)]

\* The test of one entry in the loop of search_route.
route_matches(dst, ipaddr) ==
    IF dst.kind = "IpAddr" THEN dst.addr = ipaddr
    ELSE network_contains(dst.addr, ipaddr)

\* search_route looking at the host routes only.
search_route_HostRoutesOnly(c, ipaddr) ==
    LET m == {dst \in DOMAIN c.routes : dst.kind = "IpAddr" /\ dst.addr = ipaddr}
    IN  IF m = {} THEN {None} ELSE {Some(c.routes[dst]) : dst \in m}

\* search_route(&self, ipaddr): what it can return. The loop goes through
\* the HashMap in the map's own order and returns at the first entry that
\* matches, so any matching entry can be the one.
search_route(c, ipaddr) ==
    LET m == {dst \in DOMAIN c.routes : route_matches(dst, ipaddr)}
    IN  IF m = {} THEN {None} ELSE {Some(c.routes[dst]) : dst \in m}

Call(op, ipaddr, mac, r) == [op |-> op, ipaddr |-> ipaddr, mac |-> mac, ret |-> r]

SearchMac ==
    /\ \E ipaddr \in CacheIps :
          last_call' = Some(Call("search_mac", ipaddr, None, search_mac(snc, ipaddr)))
    /\ UNCHANGED <<snc, not_cache>>

UpdateNeighborCache ==
    /\ \E ipaddr \in CacheIps, mac \in Macs :
          /\ snc' = update_neighbor_cache(snc, ipaddr, mac)
          /\ last_call' = Some(Call("update_neighbor_cache", ipaddr, Some(mac), None))
    /\ UNCHANGED not_cache

SearchRoute ==
    /\ \E ipaddr \in CacheIps :
          \E r \in search_route(snc, ipaddr) :
              last_call' = Some(Call("search_route", ipaddr, None, r))
    /\ UNCHANGED <<snc, not_cache>>

NextCache ==
    \/ SearchMac
    \/ UpdateNeighborCache
    \/ SearchRoute

(***************************************************************************)
(* The specifications. Each runs one part; the other parts are not called. *)
(***************************************************************************)

PingIdle ==
    /\ family = "v4" /\ method = "Syn" /\ hosts = <<>> /\ src_found = <<>>
    /\ tests = 0
    /\ threads_num = 1 /\ pc = "idle" /\ host_i = 0 /\ recv_size = 0
    /\ received = 0 /\ jobs = <<>> /\ running = [a \in Addrs |-> 0]
    /\ chan = <<>> /\ ping_results = PingResults_new /\ ret = None

ClassifyIdle ==
    /\ c_family = "v4" /\ c_method = "Syn" /\ c_dst_port = None
    /\ c_reply = Err("Transport") /\ c_ret = Some(Err("Idle"))
    /\ c_prev = None

UnitsIdle ==
    /\ u_family = "v4" /\ u_method = "Syn" /\ u_hosts = <<>> /\ u_tests = 0
    /\ u_src_port_arg = None /\ u_src_port = None /\ u_pc = "idle"
    /\ u_host_i = 0 /\ u_units = <<>> /\ u_sent = <<>>

RouteIdle ==
    /\ r_lines = Err("Idle") /\ r_pc = "idle" /\ r_i = 0
    /\ default_ipv4_route = None /\ default_ipv6_route = None
    /\ routes = EmptyMap /\ r_ret = None

CacheIdle ==
    /\ snc = [default_route |-> None, default_route6 |-> None, routes |-> EmptyMap,
              neighbor |-> EmptyMap]
    /\ last_call = Some("Idle")

HopIdle ==
    h_family = "v4" /\ ttl = 1 /\ h_probes = <<>> /\ h_ret = Some(Err("Idle"))

VsIdle ==
    /\ dst_port = 80 /\ only_null_probe = FALSE /\ only_tcp_recommended = FALSE
    /\ only_udp_recommended = FALSE /\ intensity = 0 /\ service_probes = <<>>
    /\ v_pc = "idle" /\ connect_ret = None /\ null_probe_ret = None
    /\ sp_i = 0 /\ recv_buff = Zeros /\ recv_all_buff = <<>>
    /\ reads = 0 /\ v_matches = <<>> /\ v_log = <<>> /\ v_ret = Some(Err("Idle"))

InitSpecPing ==
    InitPing /\ ClassifyIdle /\ UnitsIdle /\ RouteIdle
        /\ CacheIdle /\ HopIdle /\ VsIdle
InitSpecClassify ==
    InitClassify /\ PingIdle /\ UnitsIdle /\ RouteIdle
        /\ CacheIdle /\ HopIdle /\ VsIdle
InitSpecUnits ==
    InitUnits /\ PingIdle /\ ClassifyIdle /\ RouteIdle
        /\ CacheIdle /\ HopIdle /\ VsIdle
InitSpecRoute ==
    InitRoute /\ PingIdle /\ ClassifyIdle /\ UnitsIdle
        /\ CacheIdle /\ HopIdle /\ VsIdle
InitSpecCache ==
    InitCache /\ PingIdle /\ ClassifyIdle /\ UnitsIdle
        /\ RouteIdle /\ HopIdle /\ VsIdle
InitSpecHop ==
    InitHop /\ PingIdle /\ ClassifyIdle /\ UnitsIdle
        /\ RouteIdle /\ CacheIdle /\ VsIdle
InitSpecVs ==
    InitVs /\ PingIdle /\ ClassifyIdle /\ UnitsIdle
        /\ RouteIdle /\ CacheIdle /\ HopIdle

SpecPing == InitSpecPing /\ [][NextPing]_vars

\* The pool runs every unit it was given and the caller's thread runs on.
FairSpecPing == SpecPing /\ WF_vars(NextPing)

SpecClassify == InitSpecClassify /\ [][NextClassify]_vars

SpecUnits == InitSpecUnits /\ [][NextUnits]_vars

SpecRoute == InitSpecRoute /\ [][NextRoute]_vars

SpecCache == InitSpecCache /\ [][NextCache]_vars

SpecHop == InitSpecHop /\ [][NextHop]_vars

SpecVs == InitSpecVs /\ [][NextVs]_vars

(***************************************************************************)
(* Properties of ping / ping6 (SpecPing, FairSpecPing).                    *)
(***************************************************************************)
\* The status sequence of an address in a PingResults: empty when absent.
StatusSeq(pr, a) == IF a \in DOMAIN pr.pings THEN pr.pings[a] ELSE <<>>
RttSeq(pr, a) == IF a \in DOMAIN pr.rtts THEN pr.rtts[a] ELSE <<>>

Distinct(h) == \A i, j \in DOMAIN h : h[i] = h[j] => i = j

Min(S) == CHOOSE x \in S : \A y \in S : x <= y

Returned == ret[1].val

\* C1: when ping/ping6 has returned Ok for a list of distinct addresses, the
\* status sequence of every target address has exactly `tests` entries.
C1_StatusLength ==
    (pc = "done" /\ Distinct(hosts)) =>
        /\ ret # None /\ ret[1].ok
        /\ \A i \in DOMAIN hosts : Len(StatusSeq(Returned, hosts[i])) = tests
        /\ DOMAIN Returned.pings \subseteq {hosts[i] : i \in DOMAIN hosts}

\* A run of three trials of one target of which two failed in the transport.
C1_Witness ==
    /\ pc = "done" /\ method = "Syn" /\ tests = 3 /\ Len(hosts) = 1
    /\ StatusSeq(Returned, hosts[1]) = <<"Error", "Up", "Error">>

\* C2: the drain loop records an Err message as Error for the message's
\* destination alone: no other status sequence and no latency changes, and
\* the call goes on; ping/ping6 returns Err from the submission loop only,
\* with the error of the source-address discovery.
C2_ErrorIsLocal ==
    [][/\ (received' = received + 1 /\ ~Head(chan).res.ok) =>
            LET d == Head(chan).dst
            IN  /\ StatusSeq(ping_results', d)
                      = Append(StatusSeq(ping_results, d), "Error")
                /\ \A a \in Addrs \ {d} :
                      StatusSeq(ping_results', a) = StatusSeq(ping_results, a)
                /\ ping_results'.rtts = ping_results.rtts
                /\ pc' = "run"
       /\ (pc = "run" /\ pc' = "err") =>
            /\ Submitting
            /\ ret'[1].val \in {"FindSourceAddrError", "CanNotFoundSourceAddress"}
      ]_vars

\* Two targets, one trial each: one failed in the transport, the other is Up.
C2_Witness ==
    /\ pc = "done" /\ method = "Ack" /\ tests = 1
    /\ \E a, b \in Addrs :
          /\ StatusSeq(Returned, a) = <<"Error">>
          /\ StatusSeq(Returned, b) = <<"Up">>
          /\ RttSeq(Returned, b) # <<>>

\* C3: when every unit ends, a call in its drain loop returns, and it returns
\* having taken exactly recv_size messages, one per submitted unit.
C3_DrainTerminates ==
    /\ Draining ~> (pc = "done")
    /\ [](pc = "done" => (received = recv_size /\ recv_size = Len(hosts) * tests))

\* A call that returned after three units.
C3_Witness ==
    pc = "done" /\ recv_size = 3 /\ received = 3 /\ Len(hosts) = 1 /\ threads_num = 2

\* C5: after enrichment, alive_hosts is the number of addresses whose status
\* sequence holds at least one Up.
C5_AliveHosts ==
    pc = "done" =>
        Returned.alive_hosts =
            Cardinality({a \in DOMAIN Returned.pings :
                            \E i \in DOMAIN Returned.pings[a] :
                                Returned.pings[a][i] = "Up"})

\* A target with a Down before two Ups counts once.
C5_Witness ==
    /\ pc = "done"
    /\ \E a \in Addrs : StatusSeq(Returned, a) = <<"Down", "Up", "Up">>
    /\ Returned.alive_hosts = 1

\* The latency samples of a PingResults, each with its place in the map.
Samples(pr) == UNION {{<<a, i>> : i \in DOMAIN pr.rtts[a]} : a \in DOMAIN pr.rtts}

RECURSIVE SampleSum(_, _)
SampleSum(pr, S) ==
    IF S = {} THEN 0
    ELSE LET x == CHOOSE y \in S : TRUE
         IN  pr.rtts[x[1]][x[2]] + SampleSum(pr, S \ {x})

Abs(x) == IF x < 0 THEN -x ELSE x

\* C6 as stated: after enrichment, avg_rtt times the number of samples is
\* the sum of the samples, and avg_rtt is None when there is no sample.
C6_ExactMean ==
    pc = "done" =>
        LET n == Cardinality(Samples(Returned))
        IN  IF n = 0 THEN Returned.avg_rtt = None
            ELSE /\ Returned.avg_rtt # None
                 /\ Returned.avg_rtt[1] * n = SampleSum(Returned, Samples(Returned))

\* C6 amended: after enrichment, avg_rtt is the mean of the samples of the
\* rtts map as a whole number of nanoseconds: it differs from sum / count by
\* less than one nanosecond, and it is None when there is no sample.
C6_RoundedMean ==
    pc = "done" =>
        LET n == Cardinality(Samples(Returned))
        IN  IF n = 0 THEN Returned.avg_rtt = None
            ELSE /\ Returned.avg_rtt # None
                 /\ Abs(Returned.avg_rtt[1] * n
                            - SampleSum(Returned, Samples(Returned))) < n

\* Two targets with one sample each, 1 and 2 nanoseconds: the mean is 1.5.
C6_Witness ==
    /\ pc = "done"
    /\ \E a, b \in Addrs :
          RttSeq(Returned, a) = <<1>> /\ RttSeq(Returned, b) = <<2>>
    /\ Returned.avg_rtt = Some(2)

\* The number of places of an address in the list of hosts.
Count(h, a) == Cardinality({i \in DOMAIN h : h[i] = a})

\* Icmpv6 given to ping, or Icmp given to ping6.
UnsupportedPairing ==
    \/ family = "v4" /\ method = "Icmpv6"
    \/ family = "v6" /\ method = "Icmp"

\* C12: with Icmpv6 in ping or Icmp in ping6, every unit sends the
\* unsupported-method error, the drain loop records each as Error, and the
\* call returns Ok with a status sequence of Errors, one per trial, for every
\* target and no latency; the call returns no error of its own for it.
C12_UnsupportedIsPerTrial ==
    (pc # "idle" /\ UnsupportedPairing) =>
        /\ \A k \in DOMAIN chan :
              ~chan[k].res.ok /\ chan[k].res.val = "UnsupportedPingMethod"
        /\ \A a \in DOMAIN ping_results.pings :
              \A k \in DOMAIN ping_results.pings[a] :
                  ping_results.pings[a][k] = "Error"
        /\ pc = "err" =>
              ret[1].val \in {"FindSourceAddrError", "CanNotFoundSourceAddress"}
        /\ pc = "done" =>
              /\ ret # None /\ ret[1].ok
              /\ \A a \in Addrs :
                    Len(StatusSeq(Returned, a)) = tests * Count(hosts, a)
              /\ DOMAIN Returned.rtts = {}

\* ping6 with Icmp on two targets, one trial each: both are Error.
C12_Witness ==
    /\ pc = "done" /\ family = "v6" /\ method = "Icmp"
    /\ Len(hosts) = 2 /\ Distinct(hosts) /\ tests = 1
    /\ \A i \in DOMAIN hosts : StatusSeq(Returned, hosts[i]) = <<"Error">>

\* C13 as stated: a call with an unsupported pairing that submitted a unit
\* does not return Ok: what it returns is an error.
C13_UnsupportedIsFatal ==
    (pc # "idle" /\ UnsupportedPairing /\ recv_size > 0 /\ ret # None) =>
        ~ret[1].ok

\* The hosts of the list for which find_source_addr gives no address.
Unresolved == {i \in DOMAIN hosts : src_found[i] # "Some"}

\* C14: the loop over the hosts never goes past a host for which the
\* source-address discovery failed or found nothing; a call with such a host
\* never returns Ok, and what it returns is the error of the first such host,
\* with no PingResults, whatever the units of the hosts before it have sent.
C14_SourceAddrFailure ==
    pc # "idle" =>
        /\ \A i \in 1..host_i : src_found[i] = "Some"
        /\ Unresolved # {} => pc # "done"
        /\ pc = "err" =>
              /\ Unresolved # {} /\ host_i + 1 = Min(Unresolved)
              /\ ret = Some(Err(IF src_found[host_i + 1] = "Err"
                                THEN "FindSourceAddrError"
                                ELSE "CanNotFoundSourceAddress"))
        /\ ret # None => (ret[1].ok <=> Unresolved = {})

\* The second host of two has no source address; the unit of the first host
\* had been submitted and ended before the call returned the error.
C14_Witness ==
    /\ pc = "err" /\ Len(hosts) = 2 /\ tests = 1
    /\ src_found = <<"Some", "None">>
    /\ Len(chan) = 1 /\ chan[1].res.ok /\ chan[1].res.val.status = "Up"
    /\ ret = Some(Err("CanNotFoundSourceAddress"))

\* A PingResults with no entry, finalized: no average, no alive host.
EmptyResult(pr) ==
    /\ DOMAIN pr.pings = {} /\ DOMAIN pr.rtts = {}
    /\ pr.avg_rtt = None /\ pr.alive_hosts = 0

\* C15 as stated: a call with zero trials or an empty list of hosts that has
\* returned has returned Ok with an empty, finalized result.
C15_EmptyRunIsOk ==
    (pc \in {"done", "err"} /\ (tests = 0 \/ hosts = <<>>)) =>
        ret # None /\ ret[1].ok /\ EmptyResult(Returned)

\* C15 amended: a call with zero trials or an empty list of hosts submits no
\* unit; when the source-address discovery gives an address for every host
\* (always so with an empty list) it returns Ok with an empty, finalized
\* result; with zero trials the discovery still runs for every host, and the
\* call returns its error when it fails for one.
C15_EmptyRunResolved ==
    (pc # "idle" /\ (tests = 0 \/ hosts = <<>>)) =>
        /\ recv_size = 0 /\ jobs = <<>> /\ chan = <<>> /\ Busy = 0
        /\ pc = "done" => (ret # None /\ ret[1].ok /\ EmptyResult(Returned))
        /\ pc = "err" => (tests = 0 /\ Unresolved # {} /\ ~ret[1].ok)
        /\ Unresolved = {} => pc # "err"

\* Zero trials on two hosts that both have a source address.
C15_Witness ==
    /\ pc = "done" /\ tests = 0 /\ Len(hosts) = 2 /\ Unresolved = {}
    /\ ret # None /\ ret[1].ok /\ EmptyResult(Returned)

\* The status the drain loop records for a message.
StatusOf(msg) == IF msg.res.ok THEN msg.res.val.status ELSE "Error"

\* C19: a unit that ends puts its message at the tail of the channel, behind
\* the messages of the units that ended before it; the drain loop takes the
\* message at the head and appends its status to the sequence of the
\* message's target, leaving the sequences of the other targets alone. So
\* the sequence of a target holds the results of its units in the order in
\* which they ended, whatever the order in which they were submitted.
C19_CompletionOrder ==
    [][/\ (pc = "run" /\ Busy' < Busy) =>
            \E a \in Addrs :
                /\ running' = [running EXCEPT ![a] = @ - 1]
                /\ Len(chan') = Len(chan) + 1
                /\ SubSeq(chan', 1, Len(chan)) = chan
                /\ chan'[Len(chan')].dst = a
       /\ (received' = received + 1) =>
            LET msg == Head(chan)
            IN  /\ chan' = Tail(chan)
                /\ StatusSeq(ping_results', msg.dst)
                      = Append(StatusSeq(ping_results, msg.dst), StatusOf(msg))
                /\ \A a \in Addrs \ {msg.dst} :
                      StatusSeq(ping_results', a) = StatusSeq(ping_results, a)
      ]_vars

\* The unit of the second host, submitted last, ended and was recorded
\* while the unit of the first host was still running.
C19_Witness ==
    /\ pc = "run" /\ hosts = <<"a1", "a2">> /\ tests = 1 /\ threads_num = 2
    /\ running["a1"] = 1 /\ received = 1
    /\ StatusSeq(ping_results, "a2") = <<"Up">>
    /\ StatusSeq(ping_results, "a1") = <<>>

\* avg_rtt and alive_hosts of a PingResults agree with its two maps.
Consistent(pr) ==
    LET n == Cardinality(Samples(pr))
        up == {a \in DOMAIN pr.pings :
                  \E i \in DOMAIN pr.pings[a] : pr.pings[a][i] = "Up"}
    IN  /\ pr.alive_hosts = Cardinality(up)
        /\ IF n = 0 THEN pr.avg_rtt = None
           ELSE pr.avg_rtt # None
                /\ Abs(pr.avg_rtt[1] * n - SampleSum(pr, Samples(pr))) < n

\* C20: avg_rtt and alive_hosts are set in one step only, the one in which
\* the call returns Ok: it comes when the drain loop has taken all recv_size
\* messages, it leaves the two maps as they are and returns the finalized
\* results, which agree with their maps; nothing is recorded or finalized
\* after it.
C20_EnrichmentOnce ==
    [][/\ (pc = "run" /\ pc' = "run") =>
            /\ ping_results'.avg_rtt = None /\ ping_results'.alive_hosts = 0
            /\ ret' = None
       /\ (pc = "run" /\ pc' = "done") =>
            /\ received = recv_size /\ received' = received
            /\ ping_results'.pings = ping_results.pings
            /\ ping_results'.rtts = ping_results.rtts
            /\ Consistent(ping_results')
            /\ ret' = Some(Ok(ping_results'))
       /\ pc = "done" =>
            /\ pc' = "done" /\ received' = received
            /\ ping_results' = ping_results /\ ret' = ret
      ]_vars

\* A call that returned after three messages, two of them Up with a latency:
\* one alive host and an average.
C20_Witness ==
    /\ pc = "done" /\ received = 3 /\ Len(hosts) = 1
    /\ Returned.alive_hosts = 1 /\ Returned.avg_rtt = Some(1)
    /\ StatusSeq(Returned, hosts[1]) = <<"Up", "Error", "Up">>
    /\ RttSeq(Returned, hosts[1]) = <<1, 1>>

\* The number of status entries of a PingResults, over all its addresses.
Entries(pr) ==
    Cardinality(UNION {{<<a, i>> : i \in DOMAIN pr.pings[a]} : a \in DOMAIN pr.pings})

\* C23: while the receiver lives, every submitted unit is queued, executing,
\* or has sent one message that is in the channel or has been taken, and
\* every message taken is one status entry; so a call that returned Ok holds
\* as many entries as units were submitted, hosts x tests, and an address has
\* `tests` entries for each of its places in the list.
C23_OneMessagePerUnit ==
    pc \in {"run", "done"} =>
        /\ recv_size = Len(jobs) + Busy + Len(chan) + received
        /\ Entries(ping_results) = received
        /\ pc = "done" =>
              /\ Entries(Returned) = recv_size
              /\ recv_size = Len(hosts) * tests
              /\ \A a \in Addrs :
                    Len(StatusSeq(Returned, a)) = tests * Count(hosts, a)

\* The same address twice in the list, one trial: two entries, one of them
\* for a unit whose transport failed.
C23_Witness ==
    /\ pc = "done" /\ hosts = <<"a1", "a1">> /\ tests = 1
    /\ StatusSeq(Returned, "a1") = <<"Error", "Down">>

C27_SamplesFollowStatuses ==
    /\ [](\A a \in DOMAIN ping_results.rtts :
             /\ a \in DOMAIN ping_results.pings
             /\ Len(ping_results.rtts[a]) <= Len(ping_results.pings[a]))
    /\ [][(received' = received + 1) =>
            LET msg == Head(chan)
            IN  /\ StatusOf(msg) = "Error" =>
                      ping_results'.rtts = ping_results.rtts
                /\ (StatusOf(msg) = "Down" /\ msg.res.val.rtt # None) =>
                      RttSeq(ping_results', msg.dst)
                          = Append(RttSeq(ping_results, msg.dst), msg.res.val.rtt[1])
         ]_vars

\* Two trials of one target: a Down with a round-trip time, then an Error.
C27_Witness ==
    /\ hosts = <<"a1">> /\ tests = 2 /\ received = 2
    /\ StatusSeq(ping_results, "a1") = <<"Down", "Error">>
    /\ RttSeq(ping_results, "a1") = <<2>>

\* C34: when the call has returned the source-address error at host k, the
\* units submitted are those of the hosts before k and no other; from then
\* on a queued unit can still start and an executing unit can still end,
\* and a step changes neither the channel nor the count of submitted units
\* nor what was returned: the unit's message is dropped.
C34_UnitsOutliveTheCall ==
    /\ [](pc = "err" =>
            /\ host_i + 1 = Min(Unresolved)
            /\ recv_size = host_i * tests
            /\ Len(jobs) + Busy + Len(chan) <= recv_size
            /\ \A a \in Addrs :
                  Count(jobs, a) + running[a] <= tests * Count(SubSeq(hosts, 1, host_i), a)
            /\ (jobs # <<>> /\ Busy < threads_num) => ENABLED StartUnit
            /\ Busy > 0 => ENABLED (FinishUnit \/ FinishUnsupported))
    /\ [][pc = "err" =>
            /\ chan' = chan
            /\ recv_size' = recv_size /\ host_i' = host_i
            /\ Len(jobs') + Busy' = Len(jobs) + Busy
                  \/ (jobs' = jobs /\ Busy' = Busy - 1)
            /\ ret' = ret /\ pc' = "err"
         ]_vars

\* The second host has no source address: the unit of the first host was
\* still queued when the call returned, then ran and ended, and the channel
\* holds nothing of it.
C34_Witness ==
    /\ pc = "err" /\ src_found = <<"Some", "Err">> /\ tests = 1
    /\ recv_size = 1 /\ jobs = <<>> /\ Busy = 0 /\ chan = <<>>

\* C35: on the PingResults built so far and any message waiting in the
\* channel, the body of ping6's drain loop and that of ping's, which calls
\* insert, give the same pings and rtts maps: the status of the message (Error
\* for an Err) appended to the statuses of its target, and its rtt, when it
\* has one, appended to the samples of its target.
C35_InlineIsInsert ==
    \A k \in DOMAIN chan :
        LET msg == chan[k]
            by_insert == ping_recv(ping_results, msg.dst, msg.res)
            inline == ping6_recv(ping_results, msg.dst, msg.res)
        IN  /\ inline.pings = by_insert.pings
            /\ inline.rtts = by_insert.rtts
            /\ StatusSeq(inline, msg.dst)
                  = Append(StatusSeq(ping_results, msg.dst), StatusOf(msg))
            /\ RttSeq(inline, msg.dst)
                  = IF msg.res.ok /\ msg.res.val.rtt # None
                    THEN Append(RttSeq(ping_results, msg.dst), msg.res.val.rtt[1])
                    ELSE RttSeq(ping_results, msg.dst)

\* ping6 has recorded a message with an rtt for a target and the next
\* message of that target in the channel is an Err.
C35_Witness ==
    /\ family = "v6" /\ pc = "run" /\ chan # <<>>
    /\ ~Head(chan).res.ok
    /\ RttSeq(ping_results, Head(chan).dst) # <<>>

\* C36: on the PingResults of every state, a result of enrichment has the
\* pings and rtts maps it was given; enrichment of that result gives what
\* enrichment of the original gives, the result itself among it, and so it
\* does when the two derived fields hold any other values before the call.
C36_EnrichmentIdempotent ==
    pc \in {"run", "done"} =>
        \A p1 \in enrichment(ping_results) :
            /\ p1.pings = ping_results.pings
            /\ p1.rtts = ping_results.rtts
            /\ enrichment(p1) = enrichment(ping_results)
            /\ p1 \in enrichment(p1)
            /\ enrichment([p1 EXCEPT !.avg_rtt = Some(0), !.alive_hosts = 99])
                  = enrichment(ping_results)

\* The call returned results that enrichment finalized, with an average and
\* with alive hosts.
C36_Witness ==
    /\ pc = "done"
    /\ Returned.avg_rtt # None /\ Returned.alive_hosts = 2
    /\ Returned \in enrichment(Returned)

(***************************************************************************)
(* Properties of threads_ping / threads_ping6 (SpecClassify).              *)
(***************************************************************************)
\* C4: in both families, Syn classifies Open as Up and every other verdict
\* as Down; Ack classifies Unfiltered as Up and every other verdict as Down.
C4_SynAck ==
    (c_ret # None /\ c_reply.ok /\ c_method \in {"Syn", "Ack"}) =>
        /\ c_ret[1].ok
        /\ c_ret[1].val.status =
              IF \/ c_method = "Syn" /\ c_reply.val.verdict = "Open"
                 \/ c_method = "Ack" /\ c_reply.val.verdict = "Unfiltered"
              THEN "Up" ELSE "Down"

\* threads_ping6 classified Open under Ack, as Down.
C4_Witness ==
    /\ c_ret # None /\ c_family = "v6" /\ c_method = "Ack"
    /\ c_reply.ok /\ c_reply.val.verdict = "Open"
    /\ c_ret[1].ok /\ c_ret[1].val.status = "Down"

\* The call and the one before it had the same method, family and verdict.
SameClassifyInput ==
    /\ c_prev # None /\ c_prev[1].reply.ok /\ c_reply.ok
    /\ c_prev[1].family = c_family /\ c_prev[1].method = c_method
    /\ c_prev[1].reply.val.verdict = c_reply.val.verdict

\* C16: a call with Syn, Ack or Udp to which the transport gave a verdict
\* returns Ok with Up or Down, never an error; and it returns the status the
\* call before it returned whenever that call had the same method, family
\* and verdict, whatever the destination ports and latencies of the two.
C16_TotalDeterministic ==
    (c_ret # None /\ c_method \in {"Syn", "Ack", "Udp"} /\ c_reply.ok) =>
        /\ c_ret[1].ok
        /\ c_ret[1].val.status \in {"Up", "Down"}
        /\ SameClassifyInput =>
              (c_prev[1].ret.ok /\ c_prev[1].ret.val.status = c_ret[1].val.status)

\* Two calls of threads_ping with Syn and verdict Open, the first with a
\* destination port and the second without one: both are Up.
C16_Witness ==
    /\ c_ret # None /\ c_family = "v4" /\ c_method = "Syn" /\ SameClassifyInput
    /\ c_reply.val.verdict = "Open"
    /\ c_prev[1].dport = Some(443) /\ c_dst_port = None
    /\ c_prev[1].reply.val.rtt # c_reply.val.rtt
    /\ c_ret[1].ok /\ c_ret[1].val.status = "Up"

\* C17: under Udp, Open is Up in both families, OpenOrFiltered is Up in
\* threads_ping6 and Down in threads_ping, and every other verdict is Down
\* in both.
C17_UdpAsymmetry ==
    (c_ret # None /\ c_method = "Udp" /\ c_reply.ok) =>
        /\ c_ret[1].ok
        /\ c_ret[1].val.status =
              CASE c_reply.val.verdict = "Open" -> "Up"
                [] c_reply.val.verdict = "OpenOrFiltered" ->
                      (IF c_family = "v6" THEN "Up" ELSE "Down")
                [] OTHER -> "Down"

\* threads_ping classified OpenOrFiltered under Udp as Down, after
\* threads_ping6 had classified it as Up.
C17_Witness ==
    /\ c_ret # None /\ c_family = "v4" /\ c_method = "Udp"
    /\ c_reply.ok /\ c_reply.val.verdict = "OpenOrFiltered"
    /\ c_ret[1].ok /\ c_ret[1].val.status = "Down"
    /\ c_prev # None /\ c_prev[1].family = "v6" /\ c_prev[1].method = "Udp"
    /\ c_prev[1].reply.ok /\ c_prev[1].reply.val.verdict = "OpenOrFiltered"
    /\ c_prev[1].ret.ok /\ c_prev[1].ret.val.status = "Up"

(***************************************************************************)
(* Properties of the units of ping / ping6 (SpecUnits).                    *)
(***************************************************************************)
\* C25: the source port is fixed before any unit is submitted, to the
\* explicit argument when there is one and to one random port otherwise,
\* and every unit captures that port and passes it to a transport that takes
\* a source port.
C25_OneSourcePort ==
    /\ u_units # <<>> => u_src_port # None
    /\ (u_src_port # None /\ u_src_port_arg # None) => u_src_port = u_src_port_arg
    /\ (u_src_port # None /\ u_src_port_arg = None) => u_src_port[1] \in RandomPorts
    /\ \A i \in DOMAIN u_units : Some(u_units[i].src_port) = u_src_port
    /\ \A i \in DOMAIN u_sent :
          (u_sent[i] # None /\ u_sent[i][1].fn # "icmp") =>
              u_sent[i][1].src_port = u_src_port

\* No explicit port, two hosts, one trial: both units ran over SYN with the
\* same random port.
C25_Witness ==
    /\ u_src_port_arg = None /\ u_method = "Syn" /\ u_hosts = <<"a1", "a2">>
    /\ DOMAIN u_sent = {1, 2}
    /\ u_sent[1][1].src_port = Some(5001) /\ u_sent[2][1].src_port = Some(5001)

\* C26: the destination port a unit passes to the transport is the first
\* port of its host when the host has ports, else 80 for Syn, 80 for Ack and
\* 125 for Udp; the ICMP transports are passed no port, whatever the host's
\* ports; a port after the first is never passed.
C26_DestinationPort ==
    \A i \in DOMAIN u_sent :
        u_sent[i] # None =>
            LET ports == HostPorts(u_units[i].dst)
                call == u_sent[i][1]
            IN  IF u_method \in {"Icmp", "Icmpv6"}
                THEN call.dst_port = None
                ELSE /\ call.dst_port # None
                     /\ Len(ports) > 0 => call.dst_port[1] = ports[1]
                     /\ Len(ports) = 0 =>
                           call.dst_port[1] = (CASE u_method = "Syn" -> 80
                                                 [] u_method = "Ack" -> 80
                                                 [] u_method = "Udp" -> 125)
                     /\ \A k \in 2..Len(ports) :
                           ports[k] # ports[1] => call.dst_port[1] # ports[k]

\* UDP over a host with ports and a host without: the first port for the
\* one, 125 for the other.
C26_Witness ==
    /\ u_method = "Udp" /\ u_hosts = <<"a1", "a2">>
    /\ DOMAIN u_sent = {1, 2}
    /\ u_sent[1][1].dst_port = Some(443) /\ u_sent[2][1].dst_port = Some(125)

(***************************************************************************)
(* Properties of ipv4_get_hops / ipv6_get_hops (SpecHop).                  *)
(***************************************************************************)
\* The TTLs whose probe the transport answered with the given reply.
SameResult(r1, r2) == r1.ok = r2.ok /\ r1.val = r2.val

TtlsReplied(reply) ==
    {h_probes[i].ttl :
        i \in {j \in DOMAIN h_probes : SameResult(h_probes[j].reply, reply)}}

\* C7: the sweep returns the smallest TTL the transport answered with the
\* distinguishing response; it returns 0 when the transport answered every
\* TTL of 1..30 without it; it returns an error only when the transport
\* failed, and an Ok value always lies in 0..30.
C7_Hops ==
    h_ret # None =>
        /\ TtlsReplied(Ok(TRUE)) # {} =>
              SameResult(h_ret[1], Ok(Min(TtlsReplied(Ok(TRUE)))))
        /\ TtlsReplied(Ok(FALSE)) = 1..MaxTtl => SameResult(h_ret[1], Ok(0))
        /\ h_ret[1].ok => h_ret[1].val \in 0..MaxTtl
        /\ SameResult(h_ret[1], Ok(0)) => TtlsReplied(Ok(FALSE)) = 1..MaxTtl
        /\ ~h_ret[1].ok => TtlsReplied(Err("Transport")) # {}

\* The destination answered at the last TTL of the range, after 29 silences.
C7_Witness ==
    /\ h_family = "v6" /\ h_ret # None /\ SameResult(h_ret[1], Ok(MaxTtl))
    /\ Len(h_probes) = MaxTtl
    /\ TtlsReplied(Ok(FALSE)) = 1..(MaxTtl - 1)

\* C21: the i-th probe of the sweep has TTL i, so the TTLs go 1, 2, 3, ...
\* and none is 0 or above 30; only the last probe sent can have had the
\* distinguishing response, so none follows it; a sweep that returned the
\* TTL k sent k probes and one that returned 0 sent 30.
C21_TtlOrder ==
    /\ \A i \in DOMAIN h_probes :
          /\ h_probes[i].ttl = i
          /\ h_probes[i].ttl \in 1..30
          /\ i < Len(h_probes) => SameResult(h_probes[i].reply, Ok(FALSE))
    /\ (h_ret # None /\ h_ret[1].ok) =>
          Len(h_probes) = (IF h_ret[1].val = 0 THEN 30 ELSE h_ret[1].val)

\* A sweep that got the distinguishing response at TTL 3.
C21_Witness ==
    /\ h_family = "v4" /\ h_ret # None /\ SameResult(h_ret[1], Ok(3))
    /\ Len(h_probes) = 3 /\ SameResult(h_probes[3].reply, Ok(TRUE))

\* C22: a probe on which the transport failed is the last probe of the
\* sweep, and the sweep has returned the transport's error: not 0, not a TTL.
C22_HopTransportError ==
    \A i \in DOMAIN h_probes :
        ~h_probes[i].reply.ok =>
            /\ i = Len(h_probes)
            /\ h_ret # None /\ ~h_ret[1].ok
            /\ h_ret[1].val = h_probes[i].reply.val

\* The transport failed at TTL 5, after four silences.
C22_Witness ==
    /\ h_family = "v6" /\ Len(h_probes) = 5
    /\ ~h_probes[5].reply.ok
    /\ h_ret # None /\ ~h_ret[1].ok

(***************************************************************************)
(* Properties of threads_vs_probe (SpecVs).                                *)
(***************************************************************************)
\* The operations of the given kinds among those issued so far.
Issued(kinds) == {i \in DOMAIN v_log : v_log[i].op \in kinds}

ConnectFailed == connect_ret # None /\ ~connect_ret[1].ok
NullMatched == null_probe_ret # None /\ Len(null_probe_ret[1]) > 0

\* C8: once the NULL stage has returned at least one match, the call has
\* returned Ok with those matches, and it has written no probe to the
\* connection, bound no UDP socket and sent nothing over UDP.
C8_NullMatchEnds ==
    NullMatched =>
        /\ v_pc = "done"
        /\ v_ret # None /\ v_ret[1].ok /\ v_ret[1].val = null_probe_ret[1]
        /\ Issued({"write", "bind", "send"}) = {}

\* The NULL stage matched a banner with a database that also holds a TCP
\* and a UDP probe the later stages would run.
C8_Witness ==
    /\ NullMatched /\ v_pc = "done"
    /\ ~only_null_probe /\ ~only_tcp_recommended /\ ~only_udp_recommended
    /\ \E i \in DOMAIN service_probes : service_probes[i] = ProbeNull
    /\ \E i \in DOMAIN service_probes : service_probes[i] = ProbeSsl

\* C9 as stated: after a failed connect the call has entered the UDP stage
\* (it bound the UDP socket of udp_probe) and has issued no read of the NULL
\* stage and no write of the TCP continuation.
C9_ConnectFailureTriesUdp ==
    (ConnectFailed /\ v_pc = "done") =>
        /\ Issued({"bind"}) # {}
        /\ Issued({"read", "write"}) = {}

\* C10: a failed connect ends the call at once: it has returned Ok with no
\* match and has issued no operation but the connect.
C10_ConnectFailureEnds ==
    ConnectFailed =>
        /\ v_pc = "done"
        /\ v_ret # None /\ v_ret[1].ok /\ v_ret[1].val = <<>>
        /\ v_log = <<Op("connect", 0)>>

\* The connect failed with a database holding a NULL probe and a UDP probe
\* that the later stages would have run.
C10_Witness ==
    /\ ConnectFailed /\ v_pc = "done"
    /\ service_probes = <<ProbeNull, ProbeDns>>
    /\ ~only_null_probe /\ ~only_udp_recommended

\* The write of the i-th probe of the database is among the operations.
Written(i) == \E k \in DOMAIN v_log : v_log[k] = Op("write", i)

\* The TCP continuation has gone through the i-th probe of the database.
TcpPassed(i) ==
    \/ v_pc = "tcp" /\ sp_i > i
    \/ v_pc = "tcp_read" /\ sp_i >= i

\* The condition of C11 on a probe, in the words of the claim.
C11_Gate(sp) ==
    /\ intensity >= (IF sp.rarity = None THEN 0 ELSE sp.rarity[1])
    /\ \/ ~only_tcp_recommended
       \/ sp.ports # None /\ dst_port \in sp.ports[1]
       \/ sp.sslports # None /\ dst_port \in sp.sslports[1]

\* C11: a probe the call has written is a TCP probe other than NULL that
\* satisfies the condition on intensity and recommended ports, and every such
\* probe the loop of the TCP continuation has gone through has been written.
C11_TcpGating ==
    \A i \in DOMAIN service_probes :
        LET sp == service_probes[i]
        IN  /\ Written(i) =>
                (sp.probename # "NULL" /\ sp.protocol = "Tcp" /\ C11_Gate(sp))
            /\ (TcpPassed(i) /\ sp.probename # "NULL" /\ sp.protocol = "Tcp"
                    /\ C11_Gate(sp)) => Written(i)

\* With only_tcp_recommended and port 443, the loop passed over GetRequest
\* (ports 80) and wrote SSLSessionReq (sslports 443).
C11_Witness ==
    /\ only_tcp_recommended /\ dst_port = 443 /\ intensity = 7
    /\ service_probes = <<ProbeGet, ProbeSsl>>
    /\ v_pc = "tcp_read" /\ sp_i = 2
    /\ ~Written(1) /\ Written(2)

\* The place in the database of the probe of the given name.
ProbeIndex(name) ==
    CHOOSE i \in DOMAIN service_probes : service_probes[i].probename = name

\* C18 as stated: when the TCP continuation or the UDP stage has returned
\* matches, they are the matches of one probe, and the stage sent no probe
\* of the database after that one.
C18_FirstMatchStops ==
    (v_pc = "done" /\ v_ret[1].ok /\ Len(v_ret[1].val) > 0 /\ ~NullMatched) =>
        LET ms == v_ret[1].val
            i == ProbeIndex(ms[1].probename)
            kind == IF service_probes[i].protocol = "Tcp" THEN "write" ELSE "send"
        IN  /\ \A k \in DOMAIN ms : ms[k].probename = ms[1].probename
            /\ \A k \in Issued({kind}) : v_log[k].i <= i

\* The stage of an operation: 0 the connect, 1 the reads of the NULL stage,
\* 2 the writes and reads of the TCP continuation, 3 the UDP stage.
StageOf(o) ==
    CASE o.op = "connect" -> 0
      [] o.op = "read" -> (IF o.i = 0 THEN 1 ELSE 2)
      [] o.op = "write" -> 2
      [] o.op \in {"bind", "send"} -> 3

\* C28: the operations of the call follow the order of the stages, none of
\* an earlier stage after one of a later stage; when the UDP stage has
\* started, the connect had succeeded, the NULL stage had returned no match
\* and the TCP continuation had gone through the whole database; and the
\* UDP stage starts only from the end of the TCP continuation with no match.
C28_StageOrder ==
    /\ [](/\ \A k, l \in DOMAIN v_log :
                k < l => StageOf(v_log[k]) <= StageOf(v_log[l])
          /\ Issued({"bind", "send"}) # {} =>
                /\ v_log[1] = Op("connect", 0)
                /\ connect_ret # None /\ connect_ret[1].ok
                /\ null_probe_ret = Some(<<>>)
                /\ ~only_null_probe
                /\ \A i \in DOMAIN service_probes :
                      tcp_runs(service_probes[i]) => Written(i))
    /\ [][(v_pc # "udp_bind" /\ v_pc' = "udp_bind") =>
            /\ v_pc = "tcp"
            /\ sp_i > Len(service_probes)
            /\ v_matches = <<>>
         ]_vars

\* A UDP probe was sent after the continuation had written a TCP probe that
\* matched nothing.
C28_Witness ==
    /\ service_probes = <<ProbeGet, ProbeDns>>
    /\ Written(1)
    /\ Issued({"send"}) # {}

\* The send of the i-th probe of the database is among the operations.
Sent(i) == \E k \in DOMAIN v_log : v_log[k] = Op("send", i)

\* The loop of udp_probe has gone through the i-th probe of the database.
UdpPassed(i) ==
    \/ v_pc = "udp" /\ sp_i > i
    \/ v_pc = "done" /\ v_ret[1].ok /\ Issued({"bind"}) # {} /\ sp_i > i

\* The condition of C29 on a probe, in the words of the claim.
C29_Gate(sp) ==
    /\ sp.protocol = "Udp"
    /\ sp.probename # "NULL"
    /\ intensity >= (IF sp.rarity = None THEN 0 ELSE sp.rarity[1])
    /\ \/ ~only_udp_recommended
       \/ sp.ports # None /\ dst_port \in sp.ports[1]

\* C29: a probe the UDP stage has sent satisfies the condition, and every
\* probe satisfying it that the loop of the stage has gone through has been
\* sent; the probe's sslports have no part in the condition.
C29_UdpGating ==
    \A i \in DOMAIN service_probes :
        LET sp == service_probes[i]
        IN  /\ Sent(i) => C29_Gate(sp)
            /\ (UdpPassed(i) /\ C29_Gate(sp)) => Sent(i)

\* With only_udp_recommended and port 80, the loop passed over SNMPv1public
\* (no ports) and sent DNSStatusRequest (ports 80).
C29_Witness ==
    /\ only_udp_recommended /\ dst_port = 80 /\ intensity = 7
    /\ service_probes = <<ProbeSnmp, ProbeDns>>
    /\ v_pc = "udp" /\ sp_i = 3
    /\ ~Sent(1) /\ Sent(2)

\* C30: the writes of the TCP continuation come after the one connect of
\* the call and follow the order of the database, each probe written at
\* most once; a probe written is not named NULL and is not a Udp probe.
C30_TcpOrder ==
    /\ Issued({"write"}) # {} => Issued({"connect"}) = {1}
    /\ \A k, l \in Issued({"write"}) : k < l => v_log[k].i < v_log[l].i
    /\ \A k \in Issued({"write"}) :
          /\ service_probes[v_log[k].i].probename # "NULL"
          /\ service_probes[v_log[k].i].protocol # "Udp"

\* Two TCP probes written one after the other, the second of the database
\* after the first.
C30_Witness ==
    /\ service_probes = <<ProbeSsl, ProbeGet>>
    /\ \E k, l \in Issued({"write"}) : k < l /\ v_log[k].i = 1 /\ v_log[l].i = 2

\* C31 as stated: the matches of the NULL stage are the checks of the
\* entries named NULL on the accumulation of the reads (recv_all_buff, which
\* holds every byte the peer sent), and there is none when the peer sent
\* nothing. Read while the buffers of the stage are still in place.
C31_NullStageText ==
    (null_probe_ret # None /\ Issued({"write"}) = {}) =>
        null_probe_ret[1] = (IF Len(recv_all_buff) > 0
                             THEN null_checks(service_probes, recv_all_buff)
                             ELSE <<>>)

\* C32 as stated: the call does not return an error because one probe
\* failed: when it has returned Err, the operation that failed is not the
\* write of a continuation probe and not the send of a UDP probe.
C32_ProbeFailureIsLocal ==
    (v_pc = "done" /\ ~v_ret[1].ok) =>
        v_log[Len(v_log)].op \notin {"write", "send"}

\* C33: with only_null_probe set, once the NULL stage has returned no match
\* the call has returned Ok with no match, and it has written no probe,
\* bound no UDP socket and sent nothing over UDP.
C33_OnlyNullProbe ==
    (only_null_probe /\ null_probe_ret = Some(<<>>)) =>
        /\ v_pc = "done"
        /\ v_ret = Some(Ok(<<>>))
        /\ Issued({"write", "bind", "send"}) = {}

\* The flag set, a banner read that no NULL entry matched, and a database
\* with a TCP and a UDP probe the later stages would run.
C33_Witness ==
    /\ only_null_probe /\ null_probe_ret = Some(<<>>)
    /\ ~only_tcp_recommended /\ ~only_udp_recommended
    /\ service_probes = <<ProbeSsl, ProbeDns>>
    /\ Len(recv_all_buff) > 0

(***************************************************************************)
(* Properties of RouteTable::init (SpecRoute).                             *)
(***************************************************************************)
MaxOf(S) == CHOOSE x \in S : \A y \in S : y <= x

\* The lines init was given and the table it returned.
Lines == r_lines.val
Table == r_ret[1].val

\* A route line the claim counts as accepted: it matches the pattern and
\* its destination and interface resolve.
RouteAccepted(i) ==
    /\ ~Lines[i].default /\ Lines[i].caps
    /\ IpNetwork_from_str(Lines[i].subnet).ok
    /\ Lines[i].dev \in Interfaces

\* A default-route line of the family (colon: IPv6) that is accepted.
DefaultAccepted(i, colon) ==
    /\ Lines[i].default /\ Lines[i].caps
    /\ parse_IpAddr(Lines[i].via).ok
    /\ Lines[i].dev \in Interfaces
    /\ contains_colon(Lines[i].via) = colon

DstOf(i) == [kind |-> "IpNetwork", addr |-> Lines[i].subnet]

\* The default route the accepted lines of the family give: that of the last.
LastDefault(colon) ==
    LET D == {i \in DOMAIN Lines : DefaultAccepted(i, colon)}
    IN  IF D = {} THEN None
        ELSE Some([via |-> Lines[MaxOf(D)].via, dev |-> Lines[MaxOf(D)].dev])

\* C37 as stated: init obtained its lines and returned Ok; the route of
\* every accepted line, its destination with its interface, is in the table,
\* nothing else is, and the default routes are those of the last accepted
\* default lines.
C37_EveryRoutePresent ==
    (r_pc = "done" /\ r_lines.ok) =>
        /\ r_ret # None /\ r_ret[1].ok
        /\ DOMAIN Table.routes = {DstOf(i) : i \in {j \in DOMAIN Lines : RouteAccepted(j)}}
        /\ \A i \in DOMAIN Lines :
              RouteAccepted(i) => Table.routes[DstOf(i)] = Lines[i].dev
        /\ Table.default_route = LastDefault(FALSE)
        /\ Table.default_route6 = LastDefault(TRUE)

\* C37, amended: as above, but the destination of an accepted line has in
\* the table the interface of the last accepted line with that destination.
C37_SkippedLines ==
    (r_pc = "done" /\ r_lines.ok) =>
        /\ r_ret # None /\ r_ret[1].ok
        /\ DOMAIN Table.routes = {DstOf(i) : i \in {j \in DOMAIN Lines : RouteAccepted(j)}}
        /\ \A i \in DOMAIN Lines :
              RouteAccepted(i) =>
                  Table.routes[DstOf(i)] =
                      Lines[MaxOf({j \in DOMAIN Lines :
                                      RouteAccepted(j) /\ DstOf(j) = DstOf(i)})].dev
        /\ Table.default_route = LastDefault(FALSE)
        /\ Table.default_route6 = LastDefault(TRUE)

\* A line that matches nothing between two accepted lines of one
\* destination: the table has the destination with the interface of the
\* second.
C37_Witness ==
    /\ r_pc = "done" /\ r_lines.ok
    /\ Lines = <<LineRouteA, LineNoMatch, LineRouteA2>>
    /\ Table.routes[DstOf(1)] = "ens33"

(***************************************************************************)
(* Properties of SystemNetCache.                                           *)
(***************************************************************************)
TheCall == last_call[1]

\* C38: after update_neighbor_cache(ip, mac), search_mac(ip) gives Some(mac),
\* the mac of the latest update of ip; search_mac of every other address
\* gives what it gave before, and default_route, default_route6 and routes
\* are as before. search_mac and search_route never modify the cache.
C38_NeighborUpdate ==
    [][/\ last_call' # None
       /\ LET c == last_call'[1]
          IN  /\ c.op = "update_neighbor_cache" =>
                    /\ search_mac(snc', c.ipaddr) = c.mac
                    /\ \A o \in CacheIps \ {c.ipaddr} :
                           search_mac(snc', o) = search_mac(snc, o)
                    /\ snc'.default_route = snc.default_route
                    /\ snc'.default_route6 = snc.default_route6
                    /\ snc'.routes = snc.routes
              /\ c.op \in {"search_mac", "search_route"} => snc' = snc
              /\ c.op = "search_mac" => c.ret = search_mac(snc', c.ipaddr)]_vars

\* A second address has been given a mac, and the last call was an update.
C38_Witness ==
    /\ last_call # None
    /\ TheCall.op = "update_neighbor_cache"
    /\ Cardinality(DOMAIN snc.neighbor) = 2
    /\ search_mac(snc, TheCall.ipaddr) = TheCall.mac

\* The entries of routes that equal ipaddr (a host route) or contain it (a
\* network).
EqualOrContains(ipaddr) ==
    {dst \in DOMAIN snc.routes :
        \/ dst.kind = "IpAddr" /\ dst.addr = ipaddr
        \/ dst.kind = "IpNetwork" /\ network_contains(dst.addr, ipaddr)}

\* C39: search_route(ip) gives None exactly when no entry of routes equals
\* or contains ip; when it gives Some(dev), dev is the interface of an entry
\* that equals or contains ip.
C39_SearchRoute ==
    (last_call # None /\ TheCall.op = "search_route") =>
        /\ (TheCall.ret = None) <=> (EqualOrContains(TheCall.ipaddr) = {})
        /\ TheCall.ret # None =>
              \E dst \in EqualOrContains(TheCall.ipaddr) :
                  snc.routes[dst] = TheCall.ret[1]

\* With the host route 10.0.0.5 on ens36 and a network that contains the
\* address on ens33, search_route(10.0.0.5) has given ens33: the entry
\* chosen is not the most specific one.
C39_Witness ==
    /\ last_call = Some(Call("search_route", "10.0.0.5", None, Some("ens33")))
    /\ [kind |-> "IpAddr", addr |-> "10.0.0.5"] \in DOMAIN snc.routes
    /\ snc.routes[[kind |-> "IpAddr", addr |-> "10.0.0.5"]] = "ens36"
    /\ Cardinality(EqualOrContains("10.0.0.5")) > 1

====
